---- MODULE Spec2Model ----
(***************************************************************************)
(* A model of the realtime conversation client: the Conversation Engine    *)
(* (realtime/conversation.py), the event bus (realtime/event_handler.py),  *)
(* the transport adapter (realtime/api.py) and the client orchestrator     *)
(* (realtime/client.py).                                                   *)
(*                                                                         *)
(* Python values are represented as follows.                               *)
(*   dict        a function whose DOMAIN is the set of keys present        *)
(*   list        a sequence                                                *)
(*   str         a string; "+=" is \o                                      *)
(*   None        Null where a dict may stand, <<>> for an optional value   *)
(*               held as a sequence of at most one element                 *)
(*   np.ndarray  a sequence of integers (one per element)                  *)
(*   bytes       a sequence of integers 0..255                             *)
(*   base64 str  a sequence of one-character strings                       *)
(* item_lookup and items hold the same dict objects: an element of items   *)
(* is represented by the key under which item_lookup holds that object, so *)
(* a mutation through one is seen through the other, as in Python.         *)
(* A raised exception is the field "raised" of an operation's outcome; the *)
(* state carried by the outcome is the state at the raise, with every      *)
(* assignment made before it.                                              *)
(***************************************************************************)
EXTENDS Integers, Sequences, FiniteSets, TLC

VARIABLES
    conversation,   \* RealtimeConversation: item_lookup, items, response_lookup,
                    \* responses, queued_speech_items, queued_transcript_items,
                    \* queued_input_audio
    last,           \* outcome of the most recent call: what was called, whether
                    \* it raised, what it returned
    nsteps,         \* number of calls made so far
    audio_hist,     \* history: per item, the prefix kept by its latest truncation
                    \* and the samples delivered by audio deltas since
    bus,            \* RealtimeEventHandler: event_handlers, next_event_handlers
    bus_last,       \* outcome of the most recent call on the bus
    api,            \* RealtimeAPI: ws (the number of a socket, 0 for None),
                    \* connection_created
    client,         \* RealtimeClient: session_created, tools, session_config,
                    \* input_audio_buffer
    inbox,          \* per socket, the messages the server has sent on it
                    \* that no listen task has read yet
    listen_task,    \* the tasks running listen(), in the order created: where
                    \* each is (new, running, done, failed) and the socket
                    \* it iterates over (0 before its first run)
    sent,           \* events handed to ws.send, in order
    client_last,    \* outcome of the most recent client step: what ran, what it
                    \* raised, what it published on the client's bus
    arrived,        \* history: the socket each message of the server was
                    \* sent on, in the order sent
    applied,        \* history: event_ids passed to process_event, in order
    ncalls,         \* number of client calls made so far
    transport,      \* the sockets opened, in order: open, lost_error (closed
                    \* abnormally), lost_ok (closed normally by the peer), closed
    closing,        \* the disconnect() calls in progress: the socket whose
                    \* "await self.ws.close()" each is suspended in, 0 for a
                    \* task that reset() created and that has not run yet
    connecting,     \* number of connect() calls suspended in "await connect(...)"
    waiter,         \* a wait_for_next coroutine: where it is, its arguments,
                    \* its next_event cell, what it returned
    clock,          \* the event loop's time in milliseconds
    player,         \* AudioManager: audio_queue, playback_task, stream; the
                    \* render tasks, the output streams, what the device was
                    \* given to play; history of the calls made
    once            \* history of the one-shot registrations of the bus: how
                    \* many were made, which were invoked, in order, and
                    \* the number of dispatches

(***************************************************************************)
(* Bounds of the model.                                                    *)
(***************************************************************************)
MaxEvents == 3
MaxAudioEvents == 6
MaxSubs == 4
MaxArrivals == 3
MaxCalls == 3
MaxClock == 4
MaxWaits == 2
MaxChunks == 3
MaxStops == 2
MaxClears == 1
MaxItemEvents == 3
MaxTranscriptEvents == 5
MaxOnce == 2
MaxDispatches == 2

(***************************************************************************)
(* Python primitives.                                                      *)
(***************************************************************************)
Null == [null |-> TRUE]
IsNull(x) == "null" \in DOMAIN x

Has(d, k) == k \in DOMAIN d
Put(d, k, v) == [x \in DOMAIN d \cup {k} |-> IF x = k THEN v ELSE d[x]]
Del(d, k) == [x \in DOMAIN d \ {k} |-> d[x]]
EmptyDict == [x \in {} |-> Null]

Min(a, b) == IF a <= b THEN a ELSE b
Max(a, b) == IF a >= b THEN a ELSE b

\* seq[i] with a Python index: -len..len-1 are valid, negative ones count from the end
PyIndexOK(seq, i) == -Len(seq) <= i /\ i < Len(seq)
PyPos(seq, i) == IF i < 0 THEN Len(seq) + i + 1 ELSE i + 1

\* Python's slice bound: negative bounds count from the end, all are clamped
PyBound(seq, i) == IF i < 0 THEN Max(Len(seq) + i, 0) ELSE Min(i, Len(seq))
\* seq[a:b]
PySlice(seq, a, b) ==
    LET lo == PyBound(seq, a)
        hi == PyBound(seq, b)
    IN IF hi <= lo THEN <<>> ELSE SubSeq(seq, lo + 1, hi)
\* seq[:b]
PySliceTo(seq, b) == PySlice(seq, 0, b)

\* list.remove(x): drops the first element equal to x
RECURSIVE ListRemove(_, _)
ListRemove(seq, x) ==
    IF seq = <<>> THEN <<>>
    ELSE IF Head(seq) = x THEN Tail(seq)
    ELSE <<Head(seq)>> \o ListRemove(Tail(seq), x)

InList(seq, x) == \E i \in 1..Len(seq) : seq[i] = x

\* int(a * b / 1000) for integers a, b: "/" is exact here and int() truncates
\* towards zero
IntOfMs(ms, freq) ==
    LET p == ms * freq
    IN IF p >= 0 THEN p \div 1000 ELSE -((-p) \div 1000)

(***************************************************************************)
(* base64.b64decode (validate=False, so binascii.a2b_base64 in its         *)
(* non-strict mode) and np.frombuffer(dtype=int16).  Text is a sequence of *)
(* one-character strings, all of them ASCII.                               *)
(***************************************************************************)
B64Alphabet ==
    << "A","B","C","D","E","F","G","H","I","J","K","L","M","N","O","P",
       "Q","R","S","T","U","V","W","X","Y","Z","a","b","c","d","e","f",
       "g","h","i","j","k","l","m","n","o","p","q","r","s","t","u","v",
       "w","x","y","z","0","1","2","3","4","5","6","7","8","9","+","/" >>

\* the 6-bit value of each alphabet character
B64Value ==
    [ch \in {B64Alphabet[i] : i \in 1..64} |->
        (CHOOSE i \in 1..64 : B64Alphabet[i] = ch) - 1]

\* the decoder before the first character: position in the current group of
\* four, the bits left over from the last data character, the padding run so
\* far, the bytes written, and whether a completed padding ended the input
B64Start ==
    [quad_pos |-> 0, leftchar |-> 0, pads |-> 0, bin_data |-> <<>>,
     done |-> FALSE]

\* one character: "=" ends the input once it completes a group that holds at
\* least two data characters and is skipped otherwise; a character outside
\* the alphabet is discarded; a data character restarts the padding run and
\* yields a byte unless it opens a group
B64Char(st, ch) ==
    IF ch = "="
    THEN IF st.quad_pos >= 2
         THEN [st EXCEPT !.pads = @ + 1,
                         !.done = st.quad_pos + st.pads + 1 >= 4]
         ELSE st
    ELSE IF ch \notin DOMAIN B64Value THEN st
    ELSE LET v == B64Value[ch]
         IN IF st.quad_pos = 0
            THEN [st EXCEPT !.pads = 0, !.quad_pos = 1, !.leftchar = v]
            ELSE IF st.quad_pos = 1
            THEN [st EXCEPT !.pads = 0, !.quad_pos = 2,
                            !.bin_data = Append(@, st.leftchar * 4 + v \div 16),
                            !.leftchar = v % 16]
            ELSE IF st.quad_pos = 2
            THEN [st EXCEPT !.pads = 0, !.quad_pos = 3,
                            !.bin_data = Append(@, st.leftchar * 16 + v \div 4),
                            !.leftchar = v % 4]
            ELSE [st EXCEPT !.pads = 0, !.quad_pos = 0,
                            !.bin_data = Append(@, st.leftchar * 64 + v),
                            !.leftchar = 0]

\* the decoder after the characters of s from position i on
RECURSIVE B64Scan(_, _, _)
B64Scan(s, i, st) ==
    IF i > Len(s) \/ st.done THEN st
    ELSE B64Scan(s, i + 1, B64Char(st, s[i]))

\* whether b64decode accepts s: the input ended in a completed padding or on
\* a group boundary (otherwise binascii.Error)
B64Valid(s) ==
    LET st == B64Scan(s, 1, B64Start)
    IN st.done \/ st.quad_pos = 0

\* the bytes b64decode returns for an accepted s
B64Decode(s) == B64Scan(s, 1, B64Start).bin_data

\* the byte at position k of a buffer, zero past its end
ByteOrZero(bytes, k) == IF k <= Len(bytes) THEN bytes[k] ELSE 0

\* base64.b64encode: each group of up to three bytes yields four characters,
\* "=" where the group has no second or third byte
B64Encode(bytes) ==
    LET groups == [g \in 0..(((Len(bytes) + 2) \div 3) - 1) |->
                      ByteOrZero(bytes, 3 * g + 1) * 65536
                    + ByteOrZero(bytes, 3 * g + 2) * 256
                    + ByteOrZero(bytes, 3 * g + 3)]
    IN [k \in 1..(4 * ((Len(bytes) + 2) \div 3)) |->
          LET g == (k - 1) \div 4
              r == (k - 1) % 4
          IN IF r = 0 THEN B64Alphabet[(groups[g] \div 262144) + 1]
             ELSE IF r = 1 THEN B64Alphabet[((groups[g] \div 4096) % 64) + 1]
             ELSE IF r = 2
             THEN IF 3 * g + 2 > Len(bytes) THEN "="
                  ELSE B64Alphabet[((groups[g] \div 64) % 64) + 1]
             ELSE IF 3 * g + 3 > Len(bytes) THEN "="
                  ELSE B64Alphabet[(groups[g] % 64) + 1]]

\* np.frombuffer(bytes, dtype=np.int16): little-endian two's complement pairs;
\* defined when the byte count is even (otherwise ValueError)
Int16Valid(bytes) == Len(bytes) % 2 = 0
Int16OfBytes(lo, hi) ==
    LET u == lo + 256 * hi
    IN IF u >= 32768 THEN u - 65536 ELSE u
Int16FromBuffer(bytes) ==
    [j \in 1..(Len(bytes) \div 2) |-> Int16OfBytes(bytes[2 * j - 1], bytes[2 * j])]

(***************************************************************************)
(* RealtimeConversation.                                                   *)
(***************************************************************************)
default_frequency == 24000

\* clear(): the state after construction and after every clear
ClearedConversation ==
    [ item_lookup             |-> EmptyDict,
      items                   |-> <<>>,
      response_lookup         |-> EmptyDict,
      responses               |-> <<>>,
      queued_speech_items     |-> EmptyDict,
      queued_transcript_items |-> EmptyDict,
      queued_input_audio      |-> <<>> ]

queue_input_audio(c, input_audio) ==
    [c EXCEPT !.queued_input_audio = <<input_audio>>]

get_item(c, item_id) ==
    IF Has(c.item_lookup, item_id) THEN c.item_lookup[item_id] ELSE Null

\* outcomes of a processor: a return value (item, delta) or a raised exception
Ret(c, item, delta) == [conv |-> c, raised |-> "", item |-> item, delta |-> delta]
Raise(c, exc) == [conv |-> c, raised |-> exc, item |-> Null, delta |-> Null]

FormattedEmpty == [audio |-> <<>>, text |-> "", transcript |-> ""]

SetFormatted(item, k, v) == [item EXCEPT !.formatted = Put(@, k, v)]

\* the text of the text and input_text parts, in order
RECURSIVE TextOfContent(_)
TextOfContent(content) ==
    IF content = <<>> THEN ""
    ELSE (IF Head(content).type \in {"text", "input_text"}
          THEN Head(content).text ELSE "")
         \o TextOfContent(Tail(content))

\* the status branch of item.created, applied to (conversation, new_item)
DeriveStatus(c, n) ==
    IF n.type = "message" THEN
        IF n.role = "user" THEN
            IF c.queued_input_audio # <<>>
            THEN [conv |-> [c EXCEPT !.queued_input_audio = <<>>],
                  item |-> SetFormatted(Put(n, "status", "completed"), "audio",
                                        c.queued_input_audio[1])]
            ELSE [conv |-> c, item |-> Put(n, "status", "completed")]
        ELSE [conv |-> c, item |-> Put(n, "status", "in_progress")]
    ELSE IF n.type = "function_call" THEN
        [conv |-> c,
         item |-> Put(SetFormatted(n, "tool",
                          [type |-> "function", name |-> n.name,
                           call_id |-> n.call_id, arguments |-> ""]),
                      "status", "in_progress")]
    ELSE IF n.type = "function_call_output" THEN
        [conv |-> c,
         item |-> SetFormatted(Put(n, "status", "completed"), "output", n.output)]
    ELSE [conv |-> c, item |-> n]

\* new_item is the object held by the table exactly when the id was new:
\* writes to new_item reach the table only then
StoreNew(c, isNew, n) ==
    IF isNew THEN [c EXCEPT !.item_lookup = Put(@, n.id, n)] ELSE c

\* the insertion of item.created: into the lookup and the ordered list
InsertItem(c, n) ==
    [c EXCEPT !.item_lookup = Put(@, n.id, n), !.items = Append(@, n.id)]

process_item_created(c, event) ==
    LET item  == event.item
        id    == item.id
        isNew == ~Has(c.item_lookup, id)
        c0    == IF isNew THEN InsertItem(c, item) ELSE c
        n0    == Put(item, "formatted", FormattedEmpty)
        hasSpan == Has(c0.queued_speech_items, id)
    IN IF hasSpan /\ ~Has(c0.queued_speech_items[id], "audio")
       THEN Raise(StoreNew(c0, isNew, n0), "KeyError")
       ELSE
         LET n1 == IF hasSpan
                   THEN SetFormatted(n0, "audio", c0.queued_speech_items[id].audio)
                   ELSE n0
             c1 == IF hasSpan
                   THEN [c0 EXCEPT !.queued_speech_items = Del(@, id)]
                   ELSE c0
             n2 == IF Has(n1, "content") /\ n1.content # <<>>
                   THEN SetFormatted(n1, "text", TextOfContent(n1.content))
                   ELSE n1
             hasT == Has(c1.queued_transcript_items, id)
             n3 == IF hasT
                   THEN SetFormatted(n2, "transcript",
                                     c1.queued_transcript_items[id].transcript)
                   ELSE n2
             c3 == IF hasT
                   THEN [c1 EXCEPT !.queued_transcript_items = Del(@, id)]
                   ELSE c1
             d  == DeriveStatus(c3, n3)
         IN Ret(StoreNew(d.conv, isNew, d.item), d.item, Null)

\* the slice taken on the wrong side, formatted.audio[end_index:]
TruncatedAudioWrongSide(audio, end_index) == PySlice(audio, end_index, Len(audio))
\* formatted.audio[:end_index]
TruncatedAudio(audio, end_index) == PySliceTo(audio, end_index)

process_item_truncated(c, event) ==
    LET item_id == event.item_id
        audio_end_ms == event.audio_end_ms
    IN IF ~Has(c.item_lookup, item_id) THEN Raise(c, "ValueError")
       ELSE
         LET item == c.item_lookup[item_id]
             end_index == IntOfMs(audio_end_ms, default_frequency)
             n == SetFormatted(SetFormatted(item, "transcript", ""), "audio",
                               TruncatedAudio(item.formatted.audio, end_index))
         IN Ret([c EXCEPT !.item_lookup[item_id] = n], n, Null)

\* a removal that forgets the ordered list
RemoveItemLookupOnly(c, id) == [c EXCEPT !.item_lookup = Del(@, id)]
\* the removal of item.deleted: from the lookup and, if present, the list
RemoveItem(c, id) ==
    [c EXCEPT !.item_lookup = Del(@, id),
              !.items = IF InList(@, id) THEN ListRemove(@, id) ELSE @]

\* a deletion that ignores an unknown id instead of raising
process_item_deleted_lenient(c, event) ==
    IF ~Has(c.item_lookup, event.item_id) THEN Ret(c, Null, Null)
    ELSE Ret(RemoveItem(c, event.item_id), c.item_lookup[event.item_id], Null)
process_item_deleted(c, event) ==
    LET item_id == event.item_id
    IN IF ~Has(c.item_lookup, item_id) THEN Raise(c, "ValueError")
       ELSE LET item == c.item_lookup[item_id]
            IN Ret(RemoveItem(c, item.id), item, Null)

\* transcript or ' '
FormattedTranscript(transcript) == IF transcript = "" THEN " " ELSE transcript

process_audio_transcription_completed(c, event) ==
    LET item_id == event.item_id
        content_index == event.content_index
        transcript == event.transcript
        formatted_transcript == FormattedTranscript(transcript)
    IN IF ~Has(c.item_lookup, item_id)
       THEN Ret([c EXCEPT !.queued_transcript_items =
                     Put(@, item_id, [transcript |-> formatted_transcript])],
                Null, Null)
       ELSE
         LET item == c.item_lookup[item_id]
         IN IF ~Has(item, "content") THEN Raise(c, "KeyError")
            ELSE IF ~PyIndexOK(item.content, content_index) THEN Raise(c, "IndexError")
            ELSE
              LET p == PyPos(item.content, content_index)
                  n1 == [item EXCEPT !.content[p] = Put(@, "transcript", transcript)]
                  n2 == SetFormatted(n1, "transcript", formatted_transcript)
              IN Ret([c EXCEPT !.item_lookup[item_id] = n2], n2,
                     [transcript |-> transcript])

process_speech_started(c, event) ==
    Ret([c EXCEPT !.queued_speech_items =
             Put(@, event.item_id, [audio_start_ms |-> event.audio_start_ms])],
        Null, Null)

\* a span that always starts at the head of the buffer
process_speech_stopped_from_head(c, event, input_audio_buffer) ==
    LET speech == [audio_start_ms |-> 0, audio_end_ms |-> event.audio_end_ms,
                   audio |-> PySliceTo(input_audio_buffer[1],
                                       IntOfMs(event.audio_end_ms, default_frequency))]
    IN Ret([c EXCEPT !.queued_speech_items = Put(@, event.item_id, speech)],
           Null, Null)
\* input_audio_buffer is <<>> for None and <<buffer>> otherwise
process_speech_stopped(c, event, input_audio_buffer) ==
    LET item_id == event.item_id
        audio_end_ms == event.audio_end_ms
        speech0 == IF Has(c.queued_speech_items, item_id)
                   THEN c.queued_speech_items[item_id]
                   ELSE [audio_start_ms |-> audio_end_ms]
        speech1 == Put(speech0, "audio_end_ms", audio_end_ms)
        speech2 ==
            IF input_audio_buffer # <<>>
            THEN LET start_index == IntOfMs(speech1.audio_start_ms, default_frequency)
                     end_index == IntOfMs(speech1.audio_end_ms, default_frequency)
                 IN Put(speech1, "audio",
                        PySlice(input_audio_buffer[1], start_index, end_index))
            ELSE speech1
    IN Ret([c EXCEPT !.queued_speech_items = Put(@, item_id, speech2)], Null, Null)

process_response_created(c, event) ==
    LET response == event.response
    IN IF ~Has(c.response_lookup, response.id)
       THEN Ret([c EXCEPT !.response_lookup = Put(@, response.id, response),
                          !.responses = Append(@, response.id)], Null, Null)
       ELSE Ret(c, Null, Null)

process_output_item_added(c, event) ==
    LET response_id == event.response_id
        item == event.item
    IN IF ~Has(c.response_lookup, response_id) THEN Raise(c, "ValueError")
       ELSE Ret([c EXCEPT !.response_lookup[response_id].output = Append(@, item.id)],
                Null, Null)

process_output_item_done(c, event) ==
    LET item == event.item
    IN IF IsNull(item) THEN Raise(c, "ValueError")
       ELSE IF ~Has(c.item_lookup, item.id) THEN Raise(c, "ValueError")
       ELSE LET n == Put(c.item_lookup[item.id], "status", item.status)
            IN Ret([c EXCEPT !.item_lookup[item.id] = n], n, Null)

process_content_part_added(c, event) ==
    LET item_id == event.item_id
        part == event.part
    IN IF ~Has(c.item_lookup, item_id) THEN Raise(c, "ValueError")
       ELSE
         LET item == c.item_lookup[item_id]
         IN IF ~Has(item, "content") THEN Raise(c, "KeyError")
            ELSE LET n == [item EXCEPT !.content = Append(@, part)]
                 IN Ret([c EXCEPT !.item_lookup[item_id] = n], n, Null)

\* item['content'][content_index][field] += delta; item['formatted'][field] += delta
AppendToPart(c, event, field) ==
    LET item_id == event.item_id
        content_index == event.content_index
        delta == event.delta
    IN IF ~Has(c.item_lookup, item_id) THEN Raise(c, "ValueError")
       ELSE
         LET item == c.item_lookup[item_id]
         IN IF ~Has(item, "content") THEN Raise(c, "KeyError")
            ELSE IF ~PyIndexOK(item.content, content_index) THEN Raise(c, "IndexError")
            ELSE IF ~Has(item.content[PyPos(item.content, content_index)], field)
                 THEN Raise(c, "KeyError")
            ELSE
              LET p == PyPos(item.content, content_index)
                  n1 == [item EXCEPT !.content[p][field] = @ \o delta]
                  n2 == SetFormatted(n1, field, n1.formatted[field] \o delta)
              IN Ret([c EXCEPT !.item_lookup[item_id] = n2], n2,
                     [x \in {field} |-> delta])

process_audio_transcript_delta(c, event) == AppendToPart(c, event, "transcript")

process_text_delta(c, event) == AppendToPart(c, event, "text")

\* the two arrays in the wrong order
ConcatAudioSwapped(audio, append_values) == append_values \o audio
\* np.concatenate((formatted.audio, append_values))
ConcatAudio(audio, append_values) == audio \o append_values

process_audio_delta(c, event) ==
    LET item_id == event.item_id
        content_index == event.content_index
        delta == event.delta
    IN IF ~Has(c.item_lookup, item_id) THEN Raise(c, "ValueError")
       ELSE IF ~B64Valid(delta) THEN Raise(c, "binascii.Error")
       ELSE
         LET item == c.item_lookup[item_id]
             delta_bytes == B64Decode(delta)
         IN IF ~Int16Valid(delta_bytes) THEN Raise(c, "ValueError")
            ELSE
              LET append_values == Int16FromBuffer(delta_bytes)
                  n == SetFormatted(item, "audio",
                                    ConcatAudio(item.formatted.audio, append_values))
              IN Ret([c EXCEPT !.item_lookup[item_id] = n], n,
                     [audio |-> append_values])

process_function_call_arguments_delta(c, event) ==
    LET item_id == event.item_id
        delta == event.delta
    IN IF ~Has(c.item_lookup, item_id) THEN Raise(c, "ValueError")
       ELSE
         LET item == c.item_lookup[item_id]
         IN IF ~Has(item, "arguments") THEN Raise(c, "KeyError")
            ELSE
              LET n1 == [item EXCEPT !.arguments = @ \o delta]
                  c1 == [c EXCEPT !.item_lookup[item_id] = n1]
              IN IF ~Has(n1.formatted, "tool") THEN Raise(c1, "KeyError")
                 ELSE
                   LET n2 == [n1 EXCEPT !.formatted.tool.arguments = @ \o delta]
                   IN Ret([c EXCEPT !.item_lookup[item_id] = n2], n2,
                          [arguments |-> delta])

\* the keys of self.EventProcessors
EventProcessors ==
    { "conversation.item.created",
      "conversation.item.truncated",
      "conversation.item.deleted",
      "conversation.item.input_audio_transcription.completed",
      "input_audio_buffer.speech_started",
      "input_audio_buffer.speech_stopped",
      "response.created",
      "response.output_item.added",
      "response.output_item.done",
      "response.content_part.added",
      "response.audio_transcript.delta",
      "response.audio.delta",
      "response.text.delta",
      "response.function_call_arguments.delta" }

\* event_processor(event, *args): speech_stopped takes one extra positional
\* argument, every other processor none (otherwise TypeError)
CallProcessor(c, event, args) ==
    LET t == event.type
    IN IF t = "input_audio_buffer.speech_stopped"
       THEN IF Len(args) # 1 THEN Raise(c, "TypeError")
            ELSE process_speech_stopped(c, event, args[1])
       ELSE IF Len(args) # 0 THEN Raise(c, "TypeError")
       ELSE CASE t = "conversation.item.created" -> process_item_created(c, event)
              [] t = "conversation.item.truncated" -> process_item_truncated(c, event)
              [] t = "conversation.item.deleted" -> process_item_deleted(c, event)
              [] t = "conversation.item.input_audio_transcription.completed" ->
                     process_audio_transcription_completed(c, event)
              [] t = "input_audio_buffer.speech_started" -> process_speech_started(c, event)
              [] t = "response.created" -> process_response_created(c, event)
              [] t = "response.output_item.added" -> process_output_item_added(c, event)
              [] t = "response.output_item.done" -> process_output_item_done(c, event)
              [] t = "response.content_part.added" -> process_content_part_added(c, event)
              [] t = "response.audio_transcript.delta" ->
                     process_audio_transcript_delta(c, event)
              [] t = "response.audio.delta" -> process_audio_delta(c, event)
              [] t = "response.text.delta" -> process_text_delta(c, event)
              [] t = "response.function_call_arguments.delta" ->
                     process_function_call_arguments_delta(c, event)

\* a dispatch that returns (None, None) for a type without processor
process_event_lenient(c, event, args) ==
    IF ~Has(event, "event_id") THEN Raise(c, "ValueError")
    ELSE IF ~Has(event, "type") THEN Raise(c, "ValueError")
    ELSE IF event.type \notin EventProcessors THEN Ret(c, Null, Null)
    ELSE CallProcessor(c, event, args)
process_event(c, event, args) ==
    IF ~Has(event, "event_id") THEN Raise(c, "ValueError")
    ELSE IF ~Has(event, "type") THEN Raise(c, "ValueError")
    ELSE IF event.type \notin EventProcessors THEN Raise(c, "ValueError")
    ELSE CallProcessor(c, event, args)

(***************************************************************************)
(* RealtimeEventHandler: the event bus.  A bus is the pair of dicts         *)
(* event_handlers and next_event_handlers, each from an event name to the  *)
(* list of callbacks registered for it.                                    *)
(***************************************************************************)
NewBus == [event_handlers |-> EmptyDict, next_event_handlers |-> EmptyDict]

\* d.get(k, [])
GetList(d, k) == IF Has(d, k) THEN d[k] ELSE <<>>

\* d.setdefault(k, []).append(v)
AppendTo(d, k, v) == Put(d, k, Append(GetList(d, k), v))

BusRet(b, invoked) == [bus |-> b, raised |-> "", invoked |-> invoked]
BusRaise(b, exc) == [bus |-> b, raised |-> exc, invoked |-> <<>>]

clear_event_handlers(b) == BusRet(NewBus, <<>>)

on(b, event_name, callback) ==
    BusRet([b EXCEPT !.event_handlers = AppendTo(@, event_name, callback)], <<>>)

on_next(b, event_name, callback) ==
    BusRet([b EXCEPT !.next_event_handlers = AppendTo(@, event_name, callback)], <<>>)

\* the body shared by off and off_next, on the dict they address; callback is
\* <<>> for None and <<cb>> otherwise
OffIn(d, event_name, callback) ==
    IF Has(d, event_name)
    THEN IF callback # <<>>
         THEN IF ~InList(d[event_name], callback[1])
              THEN [d |-> d, raised |-> "ValueError"]
              ELSE [d |-> [d EXCEPT ![event_name] = ListRemove(@, callback[1])],
                    raised |-> ""]
         ELSE [d |-> Del(d, event_name), raised |-> ""]
    ELSE [d |-> d, raised |-> ""]

off(b, event_name, callback) ==
    LET r == OffIn(b.event_handlers, event_name, callback)
    IN [bus |-> [b EXCEPT !.event_handlers = r.d], raised |-> r.raised,
        invoked |-> <<>>]

off_next(b, event_name, callback) ==
    LET r == OffIn(b.next_event_handlers, event_name, callback)
    IN [bus |-> [b EXCEPT !.next_event_handlers = r.d], raised |-> r.raised,
        invoked |-> <<>>]

(***************************************************************************)
(* dispatch(event_name, event).  A callback is a record: name is what it   *)
(* does when called and id tells callbacks of one name apart (where the    *)
(* one-shot registrations are counted, id is the number of the             *)
(* registration and 0 for a permanent handler).  "plain" and "waiter"      *)
(* return, "raises" raises an exception, and "again" calls                 *)
(* self.on_next(event_name, ...) with a new plain callback for the topic   *)
(* being dispatched, then returns.  A run is the bus, what was raised, the *)
(* callbacks invoked so far and the number of one-shot registrations made  *)
(* so far.  Nothing in dispatch catches: an exception of a callback leaves *)
(* the loops and the method before the pop of the one-shot list.           *)
(***************************************************************************)
Run(b, registered) == [bus |-> b, raised |-> "", invoked |-> <<>>, registered |-> registered]

\* handler(event)
CallHandler(run, event_name, callback) ==
    LET called == [run EXCEPT !.invoked = Append(@, callback)]
    IN IF callback.name = "raises" THEN [called EXCEPT !.raised = "Exception"]
       ELSE IF callback.name = "again"
       THEN [called EXCEPT
                !.bus = on_next(run.bus, event_name,
                                [name |-> "plain", id |-> run.registered + 1]).bus,
                !.registered = @ + 1]
       ELSE called

RECURSIVE CallHandlers(_, _, _)
\* "for handler in handlers: handler(event)": an exception leaves the loop
CallHandlers(run, event_name, handlers) ==
    IF run.raised # "" \/ handlers = <<>> THEN run
    ELSE CallHandlers(CallHandler(run, event_name, Head(handlers)), event_name,
                      Tail(handlers))

\* the second half of dispatch: the copy of the one-shot list taken when the
\* permanent handlers have returned, its callbacks, then the pop of the list
DispatchNext(run, event_name) ==
    IF run.raised # "" THEN run
    ELSE LET done == CallHandlers(run, event_name,
                                  GetList(run.bus.next_event_handlers, event_name))
         IN IF done.raised # "" THEN done
            ELSE [done EXCEPT !.bus.next_event_handlers = Del(@, event_name)]

\* dispatch(event_name, event) on a bus where registered one-shot
\* registrations were made so far: the callbacks invoked, in order, what was
\* raised and the bus it leaves
dispatch(b, event_name, registered) ==
    DispatchNext(CallHandlers(Run(b, registered), event_name,
                              GetList(b.event_handlers, event_name)),
                 event_name)

(***************************************************************************)
(* RealtimeEventHandler.wait_for_next.  The coroutine is a record: pc is   *)
(* idle, waiting (suspended in asyncio.sleep) or returned; next_event is   *)
(* the nonlocal cell its one-shot handler writes, <<>> for None; timeout   *)
(* is <<>> for None and <<ms>> otherwise.  fired_at and first record the   *)
(* time and payload of the first dispatch on the topic after the call.     *)
(***************************************************************************)
\* the closure registered by the n-th call
WaiterHandler(n) == [name |-> "waiter", id |-> n]

\* "if timeout:" and "(t1 - t0) * 1000 > timeout"
TimedOut(wt, now) ==
    /\ wt.timeout # <<>>
    /\ wt.timeout[1] # 0
    /\ now - wt.t0 > wt.timeout[1]

\* one turn of "while next_event is None": return the event, return None on
\* timeout, or sleep
wait_loop(wt, now) ==
    IF wt.next_event # <<>>
    THEN [wt EXCEPT !.pc = "returned", !.result = wt.next_event]
    ELSE IF TimedOut(wt, now)
    THEN [wt EXCEPT !.pc = "returned", !.result = <<>>]
    ELSE [wt EXCEPT !.pc = "waiting", !.slept_at = now]

\* wait_for_next(event_name, timeout) up to its first suspension
wait_for_next(wt, event_name, timeout, now) ==
    wait_loop([wt EXCEPT !.calls = @ + 1, !.topic = event_name,
                         !.timeout = timeout, !.t0 = now,
                         !.handler = WaiterHandler(wt.calls + 1),
                         !.next_event = <<>>, !.result = <<>>,
                         !.fired_at = -1, !.first = <<>>],
              now)

\* handler(event) of the waiting coroutine, when a dispatch invoked it
WaiterNotified(wt, event_name, invoked, event, now) ==
    [wt EXCEPT !.next_event = IF wt.pc = "waiting" /\ InList(invoked, wt.handler)
                              THEN <<event>> ELSE @,
               !.fired_at = IF wt.pc = "waiting" /\ event_name = wt.topic /\ @ = -1
                            THEN now ELSE @,
               !.first = IF wt.pc = "waiting" /\ event_name = wt.topic
                            /\ wt.fired_at = -1
                         THEN <<event>> ELSE @]

(***************************************************************************)
(* RealtimeAPI and RealtimeClient.  The operations are functions of a      *)
(* world w: the conversation, the client's and the api's fields, the       *)
(* events handed to ws.send, what the client's bus was asked to publish,   *)
(* and the history of the event_ids passed to process_event.               *)
(***************************************************************************)
\* ws is the number of the socket it names, 0 for None
NewApi == [ws |-> 0, connection_created |-> FALSE]

\* _reset_config(): turn_detection is {} and no tool is registered
NewClient ==
    [ session_created    |-> FALSE,
      tools              |-> EmptyDict,
      session_config     |-> [turn_detection |-> EmptyDict, tools |-> <<>>],
      input_audio_buffer |-> <<>> ]

\* RealtimeAPI.is_connected(): self.ws is not None and self.connection_created
is_connected(a) == a.ws # 0 /\ a.connection_created

WRet(w) == [w |-> w, raised |-> ""]
WRaise(w, exc) == [w |-> w, raised |-> exc]

\* RealtimeClient.dispatch(topic, payload), as seen by the application
Publish(w, topic, payload) ==
    [w EXCEPT !.published = Append(@, [topic |-> topic, payload |-> payload])]

\* the registrations made by _add_api_event_handlers on the api's bus
ApiEventHandlers ==
    [ t \in { "client.*", "server.*", "server.session.created",
              "server.conversation.item.created",
              "server.conversation.item.truncated",
              "server.conversation.item.deleted",
              "server.conversation.item.input_audio_transcription.completed",
              "server.response.audio_transcript.delta",
              "server.response.audio.delta",
              "server.response.text.delta",
              "server.response.function_call_arguments.delta",
              "server.response.output_item.done",
              "server.input_audio_buffer.speech_started",
              "server.input_audio_buffer.speech_stopped" } |->
        IF t = "client.*" THEN <<"log_event_client">>
        ELSE IF t = "server.*" THEN <<"log_event_server">>
        ELSE IF t = "server.session.created" THEN <<"on_session_created">>
        ELSE IF t = "server.conversation.item.created" THEN <<"handle_item_created">>
        ELSE IF t = "server.response.output_item.done" THEN <<"handle_item_done">>
        ELSE IF t = "server.input_audio_buffer.speech_started"
             THEN <<"handle_speech_started">>
        ELSE IF t = "server.input_audio_buffer.speech_stopped"
             THEN <<"handle_speech_stopped">>
        ELSE <<"handle_item_updated">> ]

\* _log_event(source)
log_event(w, source, event) ==
    WRet(Publish(w, "realtime.event", [source |-> source, event |-> event]))

RECURSIVE RunClientHandlers(_, _, _)
\* the handlers of the "client." names, which are log handlers only
RunClientHandlers(hs, w, event) ==
    IF hs = <<>> THEN WRet(w)
    ELSE RunClientHandlers(Tail(hs), log_event(w, "client", event).w, event)

\* RealtimeAPI.dispatch(event_name, event) from send: the permanent handlers in
\* order (no one-shot handler is ever registered on the api's bus)
DispatchSent(w, event_name, event) ==
    RunClientHandlers(GetList(ApiEventHandlers, event_name), w, event)

\* {"event_id": generate_id("evt_"), "type": event_name, **data}
SentEvent(event_name, data) ==
    [x \in {"event_id", "type"} \cup DOMAIN data |->
        IF x \in DOMAIN data THEN data[x]
        ELSE IF x = "event_id" THEN "evt_" ELSE event_name]

\* asyncio.create_task(self.ws.send(json.dumps(event)))
QueueSend(r, event) ==
    IF r.raised # "" THEN r ELSE WRet([r.w EXCEPT !.sent = Append(@, event)])

\* self.dispatch("client.*", event), reached when the first dispatch returned
DispatchSentAll(r, event) ==
    IF r.raised # "" THEN r ELSE DispatchSent(r.w, "client.*", event)

\* a send that does not look at the connection
api_send_unchecked(w, event_name, data) ==
    QueueSend(
        DispatchSentAll(
            DispatchSent(w, "client." \o event_name, SentEvent(event_name, data)),
            SentEvent(event_name, data)),
        SentEvent(event_name, data))

\* RealtimeAPI.send(event_name, data); it returns None
api_send(w, event_name, data) ==
    IF ~is_connected(w.api) THEN WRaise(w, "RuntimeError")
    ELSE QueueSend(
            DispatchSentAll(
                DispatchSent(w, "client." \o event_name, SentEvent(event_name, data)),
                SentEvent(event_name, data)),
            SentEvent(event_name, data))

\* awaiting the None that send returned raises TypeError
AwaitNone(r) == IF r.raised # "" THEN r ELSE WRaise(r.w, "TypeError")

\* "await self.realtime.send(...)"
await_api_send(w, event_name, data) == AwaitNone(api_send(w, event_name, data))

\* conversation.process_event(event, *args) called by a handler
Applied(w, event, r) ==
    [w |-> [w EXCEPT !.conversation = r.conv,
                     !.applied = Append(@, IF Has(event, "event_id")
                                           THEN event.event_id ELSE -1)],
     raised |-> r.raised, item |-> r.item, delta |-> r.delta]

Apply(w, event, args) == Applied(w, event, process_event(w.conversation, event, args))

\* json.loads accepts, of the argument strings tool calls are driven with, "{}"
JsonValid(text) == text = "{}"

\* str(e) of the JSONDecodeError: the argument strings are "" and "{}" repeated
JsonError(text) ==
    IF text = "" THEN "Expecting value: line 1 column 1 (char 0)"
    ELSE "Extra data: line 1 column 3 (char 2)"

\* the output a tool call sends back: the handler's result or {"error": str(e)}
ToolOutput(w, tool) ==
    IF ~JsonValid(tool.arguments) THEN [error |-> JsonError(tool.arguments)]
    ELSE IF ~Has(w.client.tools, tool.name)
    THEN [error |-> "Tool \"" \o tool.name \o "\" has not been added"]
    ELSE IF Has(w.client.tools[tool.name].handler, "raises")
    THEN [error |-> w.client.tools[tool.name].handler.raises]
    ELSE w.client.tools[tool.name].handler.returns

ToolOutputItem(tool, output) ==
    [item |-> [type |-> "function_call_output", call_id |-> tool.call_id,
               output |-> output]]

\* _call_tool(tool): a send that raises inside the try block is caught and the
\* error payload is sent from the except block
SendToolError(r, tool, out) ==
    IF Has(out, "error") \/ r.raised = "" THEN r
    ELSE api_send(r.w, "conversation.item.create",
                  ToolOutputItem(tool, [error |-> r.raised]))

\* a tool call without the try block: the failure leaves the handler
call_tool_propagating(w, tool) ==
    IF Has(ToolOutput(w, tool), "error") THEN WRaise(w, "Exception")
    ELSE api_send(w, "conversation.item.create",
                  ToolOutputItem(tool, ToolOutput(w, tool)))

call_tool(w, tool) ==
    SendToolError(
        api_send(w, "conversation.item.create",
                 ToolOutputItem(tool, ToolOutput(w, tool))),
        tool, ToolOutput(w, tool))

on_session_created(w, event) == WRet([w EXCEPT !.client.session_created = TRUE])

\* the part of a handler after process_event returned or raised
ItemCreatedThen(r) ==
    IF r.raised # "" THEN WRaise(r.w, r.raised)
    ELSE IF ~IsNull(r.item) /\ r.item.status = "completed"
    THEN WRet(Publish(Publish(r.w, "conversation.item.appended", [item |-> r.item]),
                      "conversation.item.completed", [item |-> r.item]))
    ELSE WRet(Publish(r.w, "conversation.item.appended", [item |-> r.item]))

handle_item_created(w, event) == ItemCreatedThen(Apply(w, event, <<>>))

ItemUpdatedThen(r) ==
    IF r.raised # "" THEN WRaise(r.w, r.raised)
    ELSE WRet(Publish(r.w, "conversation.updated",
                      [item |-> r.item, delta |-> r.delta]))

handle_item_updated(w, event) == ItemUpdatedThen(Apply(w, event, <<>>))

ItemDoneCallTool(w, item) ==
    IF ~IsNull(item) /\ Has(item.formatted, "tool")
    THEN call_tool(w, item.formatted.tool)
    ELSE WRet(w)

ItemDoneThen(r) ==
    IF r.raised # "" THEN WRaise(r.w, r.raised)
    ELSE ItemDoneCallTool(
            IF ~IsNull(r.item) /\ r.item.status = "completed"
            THEN Publish(r.w, "conversation.item.completed", [item |-> r.item])
            ELSE r.w,
            r.item)

handle_item_done(w, event) == ItemDoneThen(Apply(w, event, <<>>))

SpeechStartedThen(r) ==
    IF r.raised # "" THEN WRaise(r.w, r.raised)
    ELSE WRet(Publish(r.w, "conversation.interrupted", EmptyDict))

handle_speech_started(w, event) == SpeechStartedThen(Apply(w, event, <<>>))

SpeechStoppedThen(r) ==
    IF r.raised # "" THEN WRaise(r.w, r.raised) ELSE WRet(r.w)

\* process_event(event, self.input_audio_buffer): the buffer is never None
handle_speech_stopped(w, event) ==
    SpeechStoppedThen(Apply(w, event, << <<w.client.input_audio_buffer>> >>))

RunHandler(h, w, event) ==
    CASE h = "log_event_client" -> log_event(w, "client", event)
      [] h = "log_event_server" -> log_event(w, "server", event)
      [] h = "on_session_created" -> on_session_created(w, event)
      [] h = "handle_item_created" -> handle_item_created(w, event)
      [] h = "handle_item_updated" -> handle_item_updated(w, event)
      [] h = "handle_item_done" -> handle_item_done(w, event)
      [] h = "handle_speech_started" -> handle_speech_started(w, event)
      [] h = "handle_speech_stopped" -> handle_speech_stopped(w, event)

RECURSIVE RunHandlers(_, _, _)
RunRest(hs, r, event) ==
    IF r.raised # "" THEN r ELSE RunHandlers(hs, r.w, event)

RunHandlers(hs, w, event) ==
    IF hs = <<>> THEN WRet(w)
    ELSE RunRest(Tail(hs), RunHandler(Head(hs), w, event), event)

\* RealtimeAPI.dispatch(event_name, event) from receive; an exception raised by
\* a handler leaves dispatch at once
ApiDispatch(w, event_name, event) ==
    RunHandlers(GetList(ApiEventHandlers, event_name), w, event)

\* RealtimeAPI.receive(event_name, event)
ReceiveAll(r, event) ==
    IF r.raised # "" THEN r ELSE ApiDispatch(r.w, "server.*", event)

receive(w, event_name, event) ==
    ReceiveAll(ApiDispatch(w, "server." \o event_name, event), event)

\* the newest message instead of the oldest
TakeNewest(q) == [message |-> q[Len(q)], rest |-> SubSeq(q, 1, Len(q) - 1)]
\* "async for message in self.ws": the oldest unread message
TakeMessage(q) == [message |-> Head(q), rest |-> Tail(q)]

\* get_turn_detection_type(); a turn_detection of None has no .get
DictGetType(td) ==
    IF IsNull(td) THEN [raised |-> "AttributeError", type |-> ""]
    ELSE IF Has(td, "type") THEN [raised |-> "", type |-> td.type]
    ELSE [raised |-> "", type |-> ""]

TurnDetectionType(cl) == DictGetType(cl.session_config.turn_detection)

\* create_response()
CreateResponseWith(w, t) ==
    IF t.raised # "" THEN WRaise(w, t.raised)
    ELSE IF t.type = "" /\ w.client.input_audio_buffer # <<>>
    THEN await_api_send(w, "input_audio_buffer.commit", EmptyDict)
    ELSE await_api_send(w, "response.create", EmptyDict)

create_response(w) == CreateResponseWith(w, TurnDetectionType(w.client))

\* append_input_audio(array_buffer)
append_input_audio(w, array_buffer) ==
    IF Len(array_buffer) > 0
    THEN await_api_send(w, "input_audio_buffer.append",
                        [audio |-> B64Encode(array_buffer)])
    ELSE WRet(w)

\* dict.update(kwargs)
DictUpdate(d, kwargs) ==
    [x \in DOMAIN d \cup DOMAIN kwargs |-> IF Has(kwargs, x) THEN kwargs[x] ELSE d[x]]

\* update_session() after self.session_config.update(kwargs)
UpdateSessionSend(w) ==
    IF is_connected(w.api)
    THEN await_api_send(w, "session.update", [session |-> w.client.session_config])
    ELSE WRet(w)

\* update_session(**kwargs)
update_session(w, kwargs) ==
    UpdateSessionSend([w EXCEPT !.client.session_config = DictUpdate(@, kwargs)])

\* a handler is callable unless it is None
Callable(handler) == ~IsNull(handler)

\* add_tool(definition, handler): the tool is registered, then
\* self.update_session({"tools": t}) passes a positional argument to a function
\* that takes keyword arguments only, and the call raises TypeError
add_tool(w, definition, handler) ==
    IF ~Has(definition, "name") \/ definition.name = ""
    THEN WRaise(w, "Exception: Missing tool name in definition")
    ELSE IF Has(w.client.tools, definition.name)
    THEN WRaise(w, "Exception: Tool already added")
    ELSE IF ~Callable(handler)
    THEN WRaise(w, "Exception: Tool handler must be a function")
    ELSE WRaise([w EXCEPT !.client.tools =
                    Put(@, definition.name,
                        [definition |-> definition, handler |-> handler])],
                "TypeError")

\* remove_tool(name)
remove_tool(w, name) ==
    IF ~Has(w.client.tools, name)
    THEN WRaise(w, "Exception: Tool does not exist, cannot be removed")
    ELSE WRet([w EXCEPT !.client.tools = Del(@, name)])

\* asyncio.create_task(x) where x is the None that send returned
CreateTaskNone(r) == IF r.raised # "" THEN r ELSE WRaise(r.w, "TypeError")

\* the role of the message is not looked at
cancel_response_item_any_role(w, item) ==
    IF IsNull(item) THEN WRaise(w, "Exception: Could not find item")
    ELSE IF item.type # "message"
    THEN WRaise(w, "Exception: Can only cancel_response messages with type \"message\"")
    ELSE CreateTaskNone(api_send(w, "response.cancel", EmptyDict))

\* cancel_response(item_id, sample_count) with an item id: the checks of the
\* item, then asyncio.create_task(self.realtime.send('response.cancel')), which
\* raises once send has returned; the search for the audio part and the
\* truncate are not reached
cancel_response_item(w, item) ==
    IF IsNull(item) THEN WRaise(w, "Exception: Could not find item")
    ELSE IF item.type # "message"
    THEN WRaise(w, "Exception: Can only cancel_response messages with type \"message\"")
    ELSE IF item.role # "assistant"
    THEN WRaise(w, "Exception: Can only cancel_response messages with role \"assistant\"")
    ELSE CreateTaskNone(api_send(w, "response.cancel", EmptyDict))

\* cancel_response(item_id=None, sample_count=0); "" stands for no item id
cancel_response(w, item_id, sample_count) ==
    IF item_id = "" THEN CreateTaskNone(api_send(w, "response.cancel", EmptyDict))
    ELSE cancel_response_item(w, get_item(w.conversation, item_id))

\* a content part whose audio is bytes gets it as base64 text instead; audio
\* is [bytes |-> b] for a bytes or bytearray b and [str |-> s] for a string s
EncodeAudio(c) ==
    IF c.type = "input_audio" /\ Has(c.audio, "bytes")
    THEN [c EXCEPT !.audio = [str |-> B64Encode(c.audio.bytes)]]
    ELSE c

\* "await self.create_response()", reached when the await before it returned
SendUserMessageThen(r) == IF r.raised # "" THEN r ELSE create_response(r.w)

\* send_user_message_content(content); <<>> stands for None and for []
send_user_message_content(w, content) ==
    SendUserMessageThen(
        await_api_send(w, "conversation.item.create",
            [item |-> [type |-> "message", role |-> "user",
                       content |-> [i \in DOMAIN content |->
                                       EncodeAudio(content[i])]]]))

\* delete_item(item_id): asyncio.create_task is given the None send returned
delete_item(w, item_id) ==
    CreateTaskNone(api_send(w, "conversation.item.delete", [item_id |-> item_id]))

(***************************************************************************)
(* Inputs: the server events and arguments the operations are driven with. *)
(***************************************************************************)
ItemIds == {"a", "b"}
ResponseIds == {"r", "q"}

\* incoming items; the status they carry is none that item.created derives
UserMessage(id) ==
    [id |-> id, type |-> "message", role |-> "user", status |-> "incomplete",
     content |-> <<[type |-> "input_text", text |-> "hi"]>>]
AssistantMessage(id) ==
    [id |-> id, type |-> "message", role |-> "assistant", status |-> "incomplete",
     content |-> <<>>]
FunctionCall(id) ==
    [id |-> id, type |-> "function_call", status |-> "incomplete",
     name |-> "lookup", call_id |-> "call_1", arguments |-> ""]
FunctionCallOutput(id) ==
    [id |-> id, type |-> "function_call_output", status |-> "incomplete",
     call_id |-> "call_1", output |-> "out"]
IncomingItems ==
    UNION {{UserMessage(id), AssistantMessage(id), FunctionCall(id),
            FunctionCallOutput(id)} : id \in ItemIds}

ContentParts == {[type |-> "audio", transcript |-> ""], [type |-> "text", text |-> ""]}
ContentIndexes == {-1, 0, 1}
TruncateMs == {0, 1, 2}
Transcripts == {"", "t"}
DoneStatuses == {"completed", "incomplete"}

\* base64 of 25 int16 samples 1..25, of the samples -1 and 300, and of 3 bytes;
\* DeltaWrapped is the samples 1 and 2 with a line break inside the text and
\* one after its padding
DeltaA ==
    << "A","Q","A","C","A","A","M","A","B","A","A","F","A","A","Y","A","B","w",
       "A","I","A","A","k","A","C","g","A","L","A","A","w","A","D","Q","A","O",
       "A","A","8","A","E","A","A","R","A","B","I","A","E","w","A","U","A","B",
       "U","A","F","g","A","X","A","B","g","A","G","Q","A","=" >>
DeltaB == << "/","/","8","s","A","Q","=","=" >>
DeltaOdd == << "B","w","g","J" >>
DeltaWrapped == << "A","Q","A","C","\n","A","A","=","=","\n" >>
AudioDeltas == {DeltaA, DeltaB, DeltaOdd, DeltaWrapped}

\* the caller's input-audio buffer handed to speech_stopped: 30 elements 1..30
InputBuffer == [i \in 1..30 |-> i]

Ev(type, fields) ==
    [x \in {"event_id", "type"} \cup DOMAIN fields |->
        IF x = "event_id" THEN "evt" ELSE IF x = "type" THEN type ELSE fields[x]]

(***************************************************************************)
(* AudioManager: the playback queue and its render tasks.  Chunks are      *)
(* numbered in the order of the enqueue_audio calls.  A render task is at  *)
(* one of its suspension points: created and not yet run ("new"), in       *)
(* "await self.audio_queue.get()" ("get"), in "await asyncio.to_thread(    *)
(* self.stream.write, ...)" ("writing"), or finished ("done", or "failed"  *)
(* when it ended with an exception).  Streams are named by the task that   *)
(* opened them.                                                            *)
(***************************************************************************)
\* the stop signal put in the queue, no task, no stream: None
StopSignal == 0
NoTask == 0
NoStream == 0

NewAudioManager ==
    [ audio_queue   |-> <<>>,
      playback_task |-> NoTask,
      stream        |-> NoStream,
      tasks         |-> <<>>,      \* the tasks created by start_playback
      open_streams  |-> {},        \* the streams opened and not closed
      device        |-> <<>>,      \* the chunks written to an open stream
      stopping      |-> <<>>,      \* stop_playback calls in "await self.playback_task"
      callers       |-> <<>>,      \* who made each of them: the application or shutdown()
      terminated    |-> FALSE,     \* self.audio.terminate() was called
      enqueued      |-> 0,         \* history: number of enqueue_audio calls
      cleared       |-> {},        \* history: chunks a clear took out of the queue
      nstops        |-> 0,         \* history: number of stop_playback calls
      nclears       |-> 0,         \* history: number of clear_audio_queue calls
      returned      |-> "" ]       \* how the latest stop_playback step ended

\* Task.done(): the task returned or raised
TaskDone(m, t) == m.tasks[t].pc \in {"done", "failed"}

\* start_playback()
start_playback(m) ==
    IF m.playback_task = NoTask \/ TaskDone(m, m.playback_task)
    THEN [m EXCEPT !.tasks = Append(@, [pc |-> "new", chunk |-> 0, stream |-> NoStream]),
                   !.playback_task = Len(m.tasks) + 1]
    ELSE m

\* enqueue_audio(audio_data): the queue is unbounded, so put() does not suspend
enqueue_audio(m, audio_data) ==
    start_playback([m EXCEPT !.audio_queue = Append(@, audio_data)])

\* a clear that leaves the newest entry in the queue
clear_audio_queue_but_last(m) ==
    [m EXCEPT !.audio_queue = IF @ = <<>> THEN <<>> ELSE <<@[Len(@)]>>]

\* clear_audio_queue(): get_nowait() until the queue is empty
clear_audio_queue(m) == [m EXCEPT !.audio_queue = <<>>]

\* stop_playback() up to "await self.playback_task"; without a running task
\* it returns at once
stop_playback(m) ==
    IF m.playback_task # NoTask /\ ~TaskDone(m, m.playback_task)
    THEN [m EXCEPT !.audio_queue = Append(@, StopSignal),
                   !.stopping = Append(@, m.playback_task),
                   !.callers = Append(@, "stop_playback"),
                   !.returned = "waiting"]
    ELSE [m EXCEPT !.returned = "returned"]

RemoveAt(seq, i) == SubSeq(seq, 1, i - 1) \o SubSeq(seq, i + 1, Len(seq))

\* stop_playback() after the awaited task ended: awaiting a task that raised
\* raises its exception, and "self.playback_task = None" is not reached
stop_playback_resume(m, i) ==
    IF m.tasks[m.stopping[i]].pc = "failed"
    THEN [m EXCEPT !.stopping = RemoveAt(@, i), !.callers = RemoveAt(@, i),
                   !.returned = "raised"]
    ELSE [m EXCEPT !.stopping = RemoveAt(@, i), !.callers = RemoveAt(@, i),
                   !.returned = "returned", !.playback_task = NoTask]

\* self.audio.terminate(): the library closes every stream that is open, and
\* no stream can be opened afterwards
terminate(m) == [m EXCEPT !.open_streams = {}, !.terminated = TRUE]

\* shutdown() after its stop_playback() came to s: a stop_playback() that waits
\* makes shutdown() wait; one that returned is followed by terminate()
ShutdownThen(s) ==
    IF s.returned = "waiting"
    THEN [s EXCEPT !.callers[Len(s.callers)] = "shutdown"]
    ELSE terminate(s)

\* shutdown() up to its first suspension
shutdown(m) == ShutdownThen(stop_playback(m))

\* shutdown() after the task its stop_playback() waited for ended: the
\* exception of a task that raised leaves shutdown() before terminate()
ShutdownResumed(s) == IF s.returned = "raised" THEN s ELSE terminate(s)

shutdown_resume(m, i) == ShutdownResumed(stop_playback_resume(m, i))

\* the finally block of audio_player: self.stream.stop_stream() and
\* self.stream.close(); closing a stream that is closed already either
\* raises or does nothing (outcome)
audio_player_exit(m, t, outcome) ==
    IF m.stream \in m.open_streams
    THEN [m EXCEPT !.open_streams = @ \ {m.stream}, !.tasks[t].pc = "done",
                   !.tasks[t].chunk = 0]
    ELSE [m EXCEPT !.tasks[t].pc = outcome, !.tasks[t].chunk = 0]

\* audio_player: one audio_queue.get() that finds the queue non-empty; the
\* stop signal leaves the loop, a chunk is handed to a thread that writes it
\* to the stream self.stream names at that moment
audio_player_get(m, t, outcome) ==
    IF Head(m.audio_queue) = StopSignal
    THEN audio_player_exit([m EXCEPT !.audio_queue = Tail(@)], t, outcome)
    ELSE [m EXCEPT !.audio_queue = Tail(@),
                   !.tasks[t] = [pc |-> "writing", chunk |-> Head(m.audio_queue),
                                 stream |-> m.stream]]

\* audio_player from its start: the stream is opened, then the loop is entered
AudioPlayerOpened(m, t) ==
    [m EXCEPT !.stream = t, !.open_streams = @ \cup {t}, !.tasks[t].pc = "get"]

\* after terminate() self.audio.open() raises, before the try block: the task
\* ends with the exception, self.stream and the queue are as they were
audio_player_start(m, t, outcome) ==
    IF m.terminated THEN [m EXCEPT !.tasks[t].pc = "failed"]
    ELSE IF m.audio_queue = <<>> THEN AudioPlayerOpened(m, t)
    ELSE audio_player_get(AudioPlayerOpened(m, t), t, outcome)

\* the thread runs stream.write(audio_data): on an open stream the chunk is
\* played and the task goes back to the queue; on a closed one write raises,
\* the except branch logs and the finally block runs
stream_write(m, t, outcome) ==
    IF m.tasks[t].stream \in m.open_streams
    THEN [m EXCEPT !.device = Append(@, m.tasks[t].chunk), !.tasks[t].pc = "get",
                   !.tasks[t].chunk = 0]
    ELSE audio_player_exit(m, t, outcome)

(***************************************************************************)
(* The Conversation Engine driven by process_event.                        *)
(***************************************************************************)
engineVars == <<conversation, last, nsteps, audio_hist>>
busVars == <<bus, bus_last>>
clientVars == <<api, client, inbox, listen_task, sent, client_last, arrived,
                applied, ncalls, transport, closing, connecting>>
connVars == <<inbox, listen_task, arrived, transport, closing, connecting>>
waitVars == <<waiter, clock>>
playVars == <<player>>
onceVars == <<once>>
vars == <<conversation, last, nsteps, audio_hist, bus, bus_last, api, client,
          inbox, listen_task, sent, client_last, arrived, applied, ncalls,
          transport, closing, connecting, waiter, clock, player, once>>

\* no one-shot registration and no dispatch has been made
NoOnce == [registered |-> 0, calls |-> <<>>, dispatches |-> 0]

NoBusCall ==
    [op |-> "none", topic |-> "", callback |-> <<>>, raised |-> "", invoked |-> <<>>]

NoCall ==
    [op |-> "none", event |-> Null, raised |-> "", item |-> Null, delta |-> Null,
     again |-> FALSE]

NoClientStep == [op |-> "none", raised |-> "", published |-> <<>>]

\* no wait_for_next has been called
NoWaiter ==
    [pc |-> "idle", calls |-> 0, topic |-> "", timeout |-> <<>>, t0 |-> 0,
     slept_at |-> 0, handler |-> "", next_event |-> <<>>, result |-> <<>>,
     fired_at |-> -1, first |-> <<>>]

\* the state after construction of the engine, a bus and a client
Init ==
    /\ conversation = ClearedConversation
    /\ last = NoCall
    /\ nsteps = 0
    /\ audio_hist = EmptyDict
    /\ bus = NewBus
    /\ bus_last = NoBusCall
    /\ api = NewApi
    /\ client = NewClient
    /\ inbox = <<>>
    /\ listen_task = <<>>
    /\ sent = <<>>
    /\ client_last = NoClientStep
    /\ arrived = <<>>
    /\ applied = <<>>
    /\ ncalls = 0
    /\ transport = <<>>
    /\ closing = <<>>
    /\ connecting = 0
    /\ waiter = NoWaiter
    /\ clock = 0
    /\ player = NewAudioManager
    /\ once = NoOnce

TypeOf(event) == IF Has(event, "type") THEN event.type ELSE ""

\* history of the audio of each item since its latest truncation: the prefix the
\* truncation is to keep (floor(audio_end_ms * 24000 / 1000) samples at most),
\* how many samples it cut, and the samples returned by the audio deltas since
HistAfter(event, r) ==
    IF r.raised # "" THEN audio_hist
    ELSE IF TypeOf(event) = "conversation.item.truncated" THEN
        LET a == conversation.item_lookup[event.item_id].formatted.audio
            L == Min(Len(a), (event.audio_end_ms * 24000) \div 1000)
        IN Put(audio_hist, event.item_id,
               [prefix |-> SubSeq(a, 1, L), cut |-> Len(a) - L, since |-> <<>>])
    ELSE IF TypeOf(event) = "response.audio.delta" /\ Has(audio_hist, event.item_id) THEN
        [audio_hist EXCEPT ![event.item_id].since = @ \o r.delta.audio]
    ELSE IF TypeOf(event) = "conversation.item.deleted" THEN
        Del(audio_hist, event.item_id)
    ELSE audio_hist

\* history: this call is a successful truncation that immediately follows a
\* successful truncation of the same item, with a sample cutoff that is at least
\* the item's audio length
TruncatedAgain(event, r) ==
    /\ r.raised = ""
    /\ TypeOf(event) = "conversation.item.truncated"
    /\ last.op = "process_event"
    /\ last.raised = ""
    /\ TypeOf(last.event) = "conversation.item.truncated"
    /\ last.event.item_id = event.item_id
    /\ (event.audio_end_ms * 24000) \div 1000
          >= Len(conversation.item_lookup[event.item_id].formatted.audio)

\* one call of process_event(event, *args)
Process(event, args) ==
    LET r == process_event(conversation, event, args)
    IN /\ conversation' = r.conv
       /\ last' = [op |-> "process_event", event |-> event, raised |-> r.raised,
                   item |-> r.item, delta |-> r.delta,
                   again |-> TruncatedAgain(event, r)]
       /\ nsteps' = nsteps + 1
       /\ audio_hist' = HistAfter(event, r)
       /\ UNCHANGED <<busVars, clientVars, waitVars, playVars, onceVars>>

ItemCreated(bound, items) ==
    /\ nsteps < bound
    /\ \E item \in items :
          Process(Ev("conversation.item.created", [item |-> item]), <<>>)

ItemTruncated(bound, ids) ==
    /\ nsteps < bound
    /\ \E id \in ids, ms \in TruncateMs :
          Process(Ev("conversation.item.truncated",
                     [item_id |-> id, content_index |-> 0, audio_end_ms |-> ms]), <<>>)

ItemDeleted(bound, ids) ==
    /\ nsteps < bound
    /\ \E id \in ids :
          Process(Ev("conversation.item.deleted", [item_id |-> id]), <<>>)

TranscriptionCompleted(bound) ==
    /\ nsteps < bound
    /\ \E id \in ItemIds, t \in Transcripts :
          Process(Ev("conversation.item.input_audio_transcription.completed",
                     [item_id |-> id, content_index |-> 0, transcript |-> t]), <<>>)

SpeechStarted(bound, starts) ==
    /\ nsteps < bound
    /\ \E id \in ItemIds, ms \in starts :
          Process(Ev("input_audio_buffer.speech_started",
                     [item_id |-> id, audio_start_ms |-> ms]), <<>>)

SpeechStopped(bound, ends) ==
    /\ nsteps < bound
    /\ \E id \in ItemIds, ms \in ends :
          Process(Ev("input_audio_buffer.speech_stopped",
                     [item_id |-> id, audio_end_ms |-> ms]), <<<<InputBuffer>>>>)

ResponseCreated(bound) ==
    /\ nsteps < bound
    /\ Process(Ev("response.created",
                  [response |-> [id |-> "r", output |-> <<>>]]), <<>>)

OutputItemAdded(bound) ==
    /\ nsteps < bound
    /\ \E rid \in ResponseIds :
          Process(Ev("response.output_item.added",
                     [response_id |-> rid, item |-> AssistantMessage("a")]), <<>>)

OutputItemDone(bound) ==
    /\ nsteps < bound
    /\ \E id \in ItemIds, st \in DoneStatuses :
          Process(Ev("response.output_item.done",
                     [item |-> [id |-> id, status |-> st]]), <<>>)

ContentPartAdded(bound) ==
    /\ nsteps < bound
    /\ \E id \in ItemIds, part \in ContentParts :
          Process(Ev("response.content_part.added",
                     [item_id |-> id, content_index |-> 0, part |-> part]), <<>>)

AudioTranscriptDelta(bound) ==
    /\ nsteps < bound
    /\ \E id \in ItemIds, i \in ContentIndexes :
          Process(Ev("response.audio_transcript.delta",
                     [item_id |-> id, content_index |-> i, delta |-> "x"]), <<>>)

TextDelta(bound) ==
    /\ nsteps < bound
    /\ \E id \in ItemIds, i \in ContentIndexes :
          Process(Ev("response.text.delta",
                     [item_id |-> id, content_index |-> i, delta |-> "y"]), <<>>)

AudioDelta(bound, ids, indexes, deltas) ==
    /\ nsteps < bound
    /\ \E id \in ids, i \in indexes, d \in deltas :
          Process(Ev("response.audio.delta",
                     [item_id |-> id, content_index |-> i, delta |-> d]), <<>>)

FunctionCallArgumentsDelta(bound) ==
    /\ nsteps < bound
    /\ \E id \in ItemIds :
          Process(Ev("response.function_call_arguments.delta",
                     [item_id |-> id, delta |-> "{}"]), <<>>)

\* events process_event must reject: no event_id, no type, a type without processor
MissingEventId(bound) ==
    /\ nsteps < bound
    /\ Process([type |-> "conversation.item.deleted", item_id |-> "a"], <<>>)

MissingType(bound) ==
    /\ nsteps < bound
    /\ Process([event_id |-> "evt", item_id |-> "a"], <<>>)

UnknownType(bound) ==
    /\ nsteps < bound
    /\ \E t \in {"session.created", "response.done"} :
          Process(Ev(t, [item_id |-> "a"]), <<>>)

\* queue_input_audio(input_audio)
QueueInputAudio(bound) ==
    /\ nsteps < bound
    /\ conversation' = queue_input_audio(conversation, <<7, 8>>)
    /\ last' = [NoCall EXCEPT !.op = "queue_input_audio"]
    /\ nsteps' = nsteps + 1
    /\ audio_hist' = audio_hist
    /\ UNCHANGED <<busVars, clientVars, waitVars, playVars, onceVars>>

\* clear()
Clear(bound) ==
    /\ nsteps < bound
    /\ conversation' = ClearedConversation
    /\ last' = [NoCall EXCEPT !.op = "clear"]
    /\ nsteps' = nsteps + 1
    /\ audio_hist' = EmptyDict
    /\ UNCHANGED <<busVars, clientVars, waitVars, playVars, onceVars>>

EngineNext ==
    \/ ItemCreated(MaxEvents, IncomingItems)
    \/ ItemTruncated(MaxEvents, ItemIds)
    \/ ItemDeleted(MaxEvents, ItemIds)
    \/ TranscriptionCompleted(MaxEvents)
    \/ SpeechStarted(MaxEvents, {0})
    \/ SpeechStopped(MaxEvents, {1})
    \/ ResponseCreated(MaxEvents)
    \/ OutputItemAdded(MaxEvents)
    \/ OutputItemDone(MaxEvents)
    \/ ContentPartAdded(MaxEvents)
    \/ AudioTranscriptDelta(MaxEvents)
    \/ TextDelta(MaxEvents)
    \/ AudioDelta(MaxEvents, ItemIds, {0, 1}, {DeltaB, DeltaOdd})
    \/ FunctionCallArgumentsDelta(MaxEvents)
    \/ MissingEventId(MaxEvents)
    \/ MissingType(MaxEvents)
    \/ UnknownType(MaxEvents)
    \/ Clear(MaxEvents)

\* every engine event and clear(), in any order
SpecEngine == Init /\ [][EngineNext]_vars

\* the events that write formatted.audio of item "a", with deltas long enough
\* for a truncation to cut inside them
AudioItems == {AssistantMessage("a"), UserMessage("a")}

AudioNext ==
    \/ ItemCreated(MaxAudioEvents, AudioItems)
    \/ AudioDelta(MaxAudioEvents, {"a"}, {0}, {DeltaA, DeltaB, DeltaWrapped})
    \/ ItemTruncated(MaxAudioEvents, {"a"})
    \/ ItemDeleted(MaxAudioEvents, {"a"})
    \/ QueueInputAudio(MaxAudioEvents)
    \/ Clear(MaxAudioEvents)

SpecAudio == Init /\ [][AudioNext]_vars

\* incoming items of item.created: every type and role, each with a status
\* other than the one item.created derives, and a message of several parts
SystemMessage(id) ==
    [id |-> id, type |-> "message", role |-> "system", status |-> "completed",
     content |-> <<[type |-> "input_text", text |-> "s"]>>]
PartsMessage(id) ==
    [id |-> id, type |-> "message", role |-> "assistant", status |-> "completed",
     content |-> <<[type |-> "text", text |-> "x"],
                   [type |-> "audio", transcript |-> "n"],
                   [type |-> "input_text", text |-> "y"]>>]
CreatedItems ==
    {UserMessage("a"), AssistantMessage("a"), SystemMessage("a"), PartsMessage("a"),
     FunctionCall("a"), FunctionCallOutput("a"), UserMessage("b")}
SpeechStartMs == {0, 1}
SpeechEndMs == {1, 2}

ItemsNext ==
    \/ ItemCreated(MaxItemEvents, CreatedItems)
    \/ TranscriptionCompleted(MaxItemEvents)
    \/ SpeechStarted(MaxItemEvents, SpeechStartMs)
    \/ SpeechStopped(MaxItemEvents, SpeechEndMs)

\* item creation, transcription and speech spans, in any order
SpecItems == Init /\ [][ItemsNext]_vars

\* the events around the transcript of one spoken item, in runs long enough
\* for an item.created to fail on a span without audio and be sent again
TranscribedItems == {UserMessage("a"), AssistantMessage("a")}

TranscriptNext ==
    \/ ItemCreated(MaxTranscriptEvents, TranscribedItems)
    \/ TranscriptionCompleted(MaxTranscriptEvents)
    \/ SpeechStarted(MaxTranscriptEvents, {0})
    \/ SpeechStopped(MaxTranscriptEvents, {1})

SpecTranscript == Init /\ [][TranscriptNext]_vars

(***************************************************************************)
(* The event bus driven by its own operations, with callbacks that return  *)
(* or raise.                                                               *)
(***************************************************************************)
Topics == {"t", "u"}
\* two callbacks that return and one that raises
Callbacks == {[name |-> "plain", id |-> 1], [name |-> "plain", id |-> 2],
              [name |-> "raises", id |-> 3]}

RECURSIVE SumLen(_, _)
SumLen(d, keys) ==
    IF keys = {} THEN 0
    ELSE LET k == CHOOSE x \in keys : TRUE
         IN Len(d[k]) + SumLen(d, keys \ {k})

\* the number of registrations the bus holds
TotalSubs(b) ==
    SumLen(b.event_handlers, DOMAIN b.event_handlers)
    + SumLen(b.next_event_handlers, DOMAIN b.next_event_handlers)

BusCall(op, topic, callback, r) ==
    /\ bus' = r.bus
    /\ bus_last' = [op |-> op, topic |-> topic, callback |-> callback,
                    raised |-> r.raised, invoked |-> r.invoked]
    /\ UNCHANGED <<engineVars, clientVars, waitVars, playVars, onceVars>>

On ==
    \E t \in Topics, h \in Callbacks :
        /\ TotalSubs(bus) < MaxSubs
        /\ BusCall("on", t, <<h>>, on(bus, t, h))

OnNext ==
    \E t \in Topics, h \in Callbacks :
        /\ TotalSubs(bus) < MaxSubs
        /\ BusCall("on_next", t, <<h>>, on_next(bus, t, h))

Off ==
    \E t \in Topics, cb \in {<<>>} \cup {<<h>> : h \in Callbacks} :
        BusCall("off", t, cb, off(bus, t, cb))

OffNext ==
    \E t \in Topics, cb \in {<<>>} \cup {<<h>> : h \in Callbacks} :
        BusCall("off_next", t, cb, off_next(bus, t, cb))

Dispatch ==
    \E t \in Topics :
        BusCall("dispatch", t, <<>>, dispatch(bus, t, 0))

ClearEventHandlers ==
    BusCall("clear_event_handlers", "", <<>>, clear_event_handlers(bus))

BusNext ==
    \/ On
    \/ OnNext
    \/ Off
    \/ OffNext
    \/ Dispatch
    \/ ClearEventHandlers

SpecBus == Init /\ [][BusNext]_vars

(***************************************************************************)
(* One-shot registrations on a bus whose callbacks may raise or register   *)
(* another one-shot callback while a dispatch runs.                        *)
(***************************************************************************)
CallbackNames == {"plain", "again", "raises"}

\* on(event_name, callback) with a permanent handler
OnCalling ==
    \E t \in Topics, n \in CallbackNames :
        /\ Len(GetList(bus.event_handlers, t)) < 1
        /\ bus' = on(bus, t, [name |-> n, id |-> 0]).bus
        /\ bus_last' = [op |-> "on", topic |-> t, callback |-> <<n>>,
                        raised |-> "", invoked |-> <<>>]
        /\ UNCHANGED <<engineVars, clientVars, waitVars, playVars, onceVars>>

\* on_next(event_name, callback): the registration gets the next number
OnNextCalling ==
    \E t \in Topics, n \in CallbackNames :
        /\ once.registered < MaxOnce
        /\ bus' = on_next(bus, t, [name |-> n, id |-> once.registered + 1]).bus
        /\ bus_last' = [op |-> "on_next", topic |-> t, callback |-> <<n>>,
                        raised |-> "", invoked |-> <<>>]
        /\ once' = [once EXCEPT !.registered = @ + 1]
        /\ UNCHANGED <<engineVars, clientVars, waitVars, playVars>>

\* the numbers of the one-shot registrations among the callbacks invoked
RECURSIVE OnceIds(_)
OnceIds(invoked) ==
    IF invoked = <<>> THEN <<>>
    ELSE (IF Head(invoked).id = 0 THEN <<>> ELSE <<Head(invoked).id>>)
         \o OnceIds(Tail(invoked))

DispatchRun(t, run) ==
    /\ run.registered <= MaxOnce
    /\ bus' = run.bus
    /\ bus_last' = [op |-> "dispatch", topic |-> t, callback |-> <<>>,
                    raised |-> run.raised, invoked |-> run.invoked]
    /\ once' = [registered |-> run.registered,
                calls |-> once.calls \o OnceIds(run.invoked),
                dispatches |-> once.dispatches + 1]
    /\ UNCHANGED <<engineVars, clientVars, waitVars, playVars>>

DispatchCalls ==
    /\ once.dispatches < MaxDispatches
    /\ \E t \in Topics : DispatchRun(t, dispatch(bus, t, once.registered))

OnceNext ==
    \/ OnCalling
    \/ OnNextCalling
    \/ DispatchCalls

SpecOnce == Init /\ [][OnceNext]_vars

(***************************************************************************)
(* wait_for_next on a bus, with the clock of the event loop.               *)
(***************************************************************************)
WaitTimeouts == {<<>>, <<0>>, <<1>>, <<2>>}
Payloads == {"p", "q"}

WaitForNext ==
    /\ waiter.pc \in {"idle", "returned"}
    /\ waiter.calls < MaxWaits
    /\ \E t \in Topics, timeout \in WaitTimeouts :
          /\ bus' = on_next(bus, t, WaiterHandler(waiter.calls + 1)).bus
          /\ waiter' = wait_for_next(waiter, t, timeout, clock)
    /\ UNCHANGED <<engineVars, clientVars, playVars, onceVars, bus_last, clock>>

\* asyncio.sleep(0.001) has returned, at least one millisecond after it began
WaitWakes ==
    /\ waiter.pc = "waiting"
    /\ clock >= waiter.slept_at + 1
    /\ waiter' = wait_loop(waiter, clock)
    /\ UNCHANGED <<engineVars, clientVars, playVars, onceVars, busVars, clock>>

\* another callback of the event loop dispatches on the bus
DispatchPayload(t, event, r) ==
    /\ bus' = r.bus
    /\ bus_last' = [op |-> "dispatch", topic |-> t, callback |-> <<>>,
                    raised |-> r.raised, invoked |-> r.invoked]
    /\ waiter' = WaiterNotified(waiter, t, r.invoked, event, clock)

WaitDispatch ==
    /\ \E t \in Topics, event \in Payloads : DispatchPayload(t, event, dispatch(bus, t, 0))
    /\ UNCHANGED <<engineVars, clientVars, playVars, onceVars, clock>>

Tick ==
    /\ clock < MaxClock
    /\ clock' = clock + 1
    /\ UNCHANGED <<engineVars, clientVars, playVars, onceVars, busVars, waiter>>

WaitNext ==
    \/ WaitForNext
    \/ WaitWakes
    \/ WaitDispatch
    \/ Tick

SpecWait == Init /\ [][WaitNext]_vars

(***************************************************************************)
(* The client on one event loop: calls of the application, messages sent   *)
(* by the server, and the listen task reading them.  A step runs from one  *)
(* suspension point to the next.                                           *)
(***************************************************************************)
World ==
    [conversation |-> conversation, client |-> client, api |-> api,
     sent |-> sent, published |-> <<>>, applied |-> applied]

\* the world a step leaves, and what the step raised and published
ClientStep(op, r) ==
    /\ conversation' = r.w.conversation
    /\ client' = r.w.client
    /\ api' = r.w.api
    /\ sent' = r.w.sent
    /\ applied' = r.w.applied
    /\ client_last' = [op |-> op, raised |-> r.raised, published |-> r.w.published]
    /\ UNCHANGED <<last, nsteps, audio_hist, busVars, waitVars, playVars, onceVars>>

\* RealtimeAPI.connect() after "await connect(...)" when the server accepts:
\* ws is the new socket, the listen task is created; client.connect() then
\* awaits update_session()
connect_accepted(w, ws) ==
    await_api_send([w EXCEPT !.api = [ws |-> ws, connection_created |-> TRUE]],
                   "session.update", [session |-> w.client.session_config])

\* RealtimeAPI.connect() when opening the socket raises: the except clause names
\* websockets.exceptions, and the module never binds the name websockets
connect_refused(w) == WRaise(w, "NameError")

\* connect() up to "await connect(...)": connected, it raises; otherwise it
\* waits for the socket to open, and nothing keeps a second connect() from
\* passing the same test meanwhile.  The application calls it when the number
\* of connect() calls in progress is in pending.
Connect(pending) ==
    /\ ncalls < MaxCalls
    /\ connecting \in pending
    /\ ncalls' = ncalls + 1
    /\ IF is_connected(api)
       THEN /\ ClientStep("connect", WRaise(World, "RuntimeError"))
            /\ UNCHANGED connecting
       ELSE /\ ClientStep("connect_called", WRet(World))
            /\ connecting' = connecting + 1
    /\ UNCHANGED <<inbox, listen_task, arrived, transport, closing>>

\* "await connect(...)" returns or raises, and connect() runs to its end: a
\* socket the server accepted is new, with a listen task created for it
ConnectResume ==
    /\ connecting > 0
    /\ connecting' = connecting - 1
    /\ \/ /\ ClientStep("connect", connect_refused(World))
          /\ UNCHANGED <<inbox, listen_task, transport>>
       \/ /\ ClientStep("connect", connect_accepted(World, Len(transport) + 1))
          /\ inbox' = Append(inbox, <<>>)
          /\ listen_task' = Append(listen_task, [pc |-> "new", ws |-> 0])
          /\ transport' = Append(transport, "open")
    /\ UNCHANGED <<arrived, ncalls, closing>>

\* listen() as the event loop first runs it: "async for message in self.ws"
\* takes the socket self.ws names at that moment; None is not iterable
\* (TypeError, which ends the task)
ListenStarts ==
    /\ \E t \in DOMAIN listen_task :
          /\ listen_task[t].pc = "new"
          /\ listen_task' =
                [listen_task EXCEPT ![t] =
                    IF api.ws = 0 THEN [pc |-> "failed", ws |-> 0]
                    ELSE [pc |-> "running", ws |-> api.ws]]
    /\ UNCHANGED <<engineVars, busVars, waitVars, playVars, onceVars, api, client, inbox, sent,
                   client_last, arrived, applied, ncalls, transport, closing,
                   connecting>>

\* "await self.ws.close()" returns for the socket s: the socket is closed.  The
\* messages read from it and not yet taken stay in its queue, and a listen
\* task iterating over it goes on taking them
SocketsClosed(S) ==
    transport' = [s \in DOMAIN transport |->
                     IF s \in S THEN "closed" ELSE transport[s]]

\* the conversation is left as it is
disconnect_finish_keeping(w) == WRet([w EXCEPT !.api = NewApi])
\* disconnect() after "await self.ws.close()": the rest of RealtimeAPI.disconnect,
\* then self.conversation.clear()
disconnect_finish(w) ==
    WRet([w EXCEPT !.api = NewApi, !.conversation = ClearedConversation])

\* disconnect() up to its first suspension: with a connection it waits for
\* ws.close() of the socket self.ws names; without one it clears the
\* conversation and returns
disconnect_start(w) ==
    IF is_connected(w.api)
    THEN WRet([w EXCEPT !.client.session_created = FALSE])
    ELSE WRet([w EXCEPT !.client.session_created = FALSE,
                        !.conversation = ClearedConversation])

Disconnect ==
    /\ ncalls < MaxCalls
    /\ ncalls' = ncalls + 1
    /\ ClientStep(IF is_connected(api) THEN "disconnect_called" ELSE "disconnect",
                  disconnect_start(World))
    /\ closing' = IF is_connected(api) THEN Append(closing, api.ws) ELSE closing
    /\ UNCHANGED <<inbox, listen_task, arrived, transport, connecting>>

\* ws.close() has returned to one of the suspended disconnect() calls, which
\* runs to its end
DisconnectResume ==
    /\ \E i \in DOMAIN closing :
          /\ closing[i] # 0
          /\ closing' = RemoveAt(closing, i)
          /\ SocketsClosed({closing[i]})
    /\ ClientStep("disconnect", disconnect_finish(World))
    /\ UNCHANGED <<inbox, listen_task, arrived, ncalls, connecting>>

CreateResponse ==
    /\ ncalls < MaxCalls
    /\ ncalls' = ncalls + 1
    /\ ClientStep("create_response", create_response(World))
    /\ UNCHANGED connVars

AppendInputAudio ==
    /\ ncalls < MaxCalls
    /\ ncalls' = ncalls + 1
    /\ ClientStep("append_input_audio", append_input_audio(World, <<1, 0>>))
    /\ UNCHANGED connVars

\* the messages the server sends, numbered by event_id in the order sent
ServerEvents(n) ==
    { [event_id |-> n, type |-> "conversation.item.created",
       item |-> AssistantMessage("a")],
      [event_id |-> n, type |-> "conversation.item.created",
       item |-> FunctionCall("b")],
      [event_id |-> n, type |-> "conversation.item.deleted", item_id |-> "a"],
      [event_id |-> n, type |-> "response.output_item.done",
       item |-> [id |-> "b", status |-> "completed"]],
      [event_id |-> n, type |-> "session.created"],
      [event_id |-> n, type |-> "response.created",
       response |-> [id |-> "r", output |-> <<>>]] }

\* a message arrives on an open socket
Arrives(events) ==
    /\ Len(arrived) < MaxArrivals
    /\ \E s \in DOMAIN transport :
          /\ transport[s] = "open"
          /\ \E e \in events : inbox' = [inbox EXCEPT ![s] = Append(@, e)]
          /\ arrived' = Append(arrived, s)
    /\ UNCHANGED <<engineVars, busVars, waitVars, playVars, onceVars, api, client, listen_task, sent,
                   client_last, applied, ncalls, transport, closing, connecting>>

ServerSends == Arrives(ServerEvents(Len(arrived) + 1))

ListenResult(t, r) ==
    /\ ClientStep("listen", r)
    /\ listen_task' = [listen_task EXCEPT ![t].pc =
                          IF r.raised # "" THEN "failed" ELSE "running"]

ListenTurn(t, m) ==
    /\ ListenResult(t, receive(World, m.message.type, m.message))
    /\ inbox' = [inbox EXCEPT ![listen_task[t].ws] = m.rest]

\* listen(): one turn of "async for message in self.ws", receive() and every
\* handler it runs; an exception other than ConnectionClosed ends the task
Listen ==
    /\ \E t \in DOMAIN listen_task :
          /\ listen_task[t].pc = "running"
          /\ inbox[listen_task[t].ws] # <<>>
          /\ ListenTurn(t, TakeMessage(inbox[listen_task[t].ws]))
    /\ UNCHANGED <<arrived, ncalls, transport, closing, connecting>>

\* two listen tasks iterate over one socket and one asks for the next message
\* while the other waits for it: the socket refuses the second reader, whose
\* task ends with that exception
ListenClash ==
    /\ \E t, u \in DOMAIN listen_task :
          /\ t # u
          /\ listen_task[t].pc = "running"
          /\ listen_task[u].pc = "running"
          /\ listen_task[t].ws = listen_task[u].ws
          /\ inbox[listen_task[t].ws] = <<>>
          /\ listen_task' = [listen_task EXCEPT ![t].pc = "failed"]
    /\ UNCHANGED <<engineVars, busVars, waitVars, playVars, onceVars, api, client, inbox, sent,
                   client_last, arrived, applied, ncalls, transport, closing,
                   connecting>>

\* a connection is lost: closed abnormally, or closed normally by the peer
ConnectionLost ==
    /\ \E s \in DOMAIN transport :
          /\ transport[s] = "open"
          /\ \E how \in {"lost_error", "lost_ok"} :
                transport' = [transport EXCEPT ![s] = how]
    /\ UNCHANGED <<engineVars, busVars, waitVars, playVars, onceVars, api, client, inbox, listen_task,
                   sent, client_last, arrived, applied, ncalls, closing,
                   connecting>>

\* RealtimeAPI.disconnect() after "await self.ws.close()": self.ws is set to
\* None and connection_created to False, whatever socket self.ws names by then
api_disconnect_finish(w) == WRet([w EXCEPT !.api = NewApi])

\* listen(): the iteration raises ConnectionClosed once the unread messages
\* are consumed; the handler logs and awaits self.disconnect(), which waits
\* for ws.close() of the socket self.ws names at that moment (the task keeps
\* it in ws while it is "closing"), or returns at once when self.ws is None
ListenClosed ==
    /\ \E t \in DOMAIN listen_task :
          /\ listen_task[t].pc = "running"
          /\ inbox[listen_task[t].ws] = <<>>
          /\ transport[listen_task[t].ws] = "lost_error"
          /\ listen_task' =
                [listen_task EXCEPT ![t] =
                    IF api.ws = 0 THEN [@ EXCEPT !.pc = "done"]
                    ELSE [pc |-> "closing", ws |-> api.ws]]
    /\ ClientStep(IF api.ws = 0 THEN "listen_closed" ELSE "listen_closed_called",
                  WRet(World))
    /\ UNCHANGED <<inbox, arrived, ncalls, transport, closing, connecting>>

\* ws.close() has returned to the disconnect() a listen task awaits: the rest
\* of RealtimeAPI.disconnect runs and listen() returns
ListenClosedResume ==
    /\ \E t \in DOMAIN listen_task :
          /\ listen_task[t].pc = "closing"
          /\ SocketsClosed({listen_task[t].ws})
          /\ listen_task' = [listen_task EXCEPT ![t].pc = "done"]
    /\ ClientStep("listen_closed", api_disconnect_finish(World))
    /\ UNCHANGED <<inbox, arrived, ncalls, closing, connecting>>

\* listen(): after a normal closure, by the peer or by ws.close(), the
\* iteration ends without an exception once the unread messages are consumed,
\* and listen() returns
ListenEnds ==
    /\ \E t \in DOMAIN listen_task :
          /\ listen_task[t].pc = "running"
          /\ inbox[listen_task[t].ws] = <<>>
          /\ transport[listen_task[t].ws] \in {"lost_ok", "closed"}
          /\ listen_task' = [listen_task EXCEPT ![t].pc = "done"]
    /\ UNCHANGED <<engineVars, busVars, waitVars, playVars, onceVars, api, client, inbox, sent,
                   client_last, arrived, applied, ncalls, transport, closing,
                   connecting>>

\* the event names the application sends directly
SendNames == {"response.cancel", "conversation.item.delete"}

\* self.realtime.send(event_name) called by the application
ApiSend ==
    /\ ncalls < MaxCalls
    /\ ncalls' = ncalls + 1
    /\ \E n \in SendNames : ClientStep("send", api_send(World, n, EmptyDict))
    /\ UNCHANGED connVars

\* the content the application sends: nothing, a text part, an audio part
\* holding the bytes of the sample 1, an audio part holding base64 text
UserContents ==
    { <<>>,
      << [type |-> "input_text", text |-> "hi"] >>,
      << [type |-> "input_audio", audio |-> [bytes |-> <<1, 0>>]] >>,
      << [type |-> "input_audio", audio |-> [str |-> <<"A", "Q", "A", "=">>]] >> }

SendUserMessageContent ==
    /\ ncalls < MaxCalls
    /\ ncalls' = ncalls + 1
    /\ \E content \in UserContents :
          ClientStep("send_user_message_content",
                     send_user_message_content(World, content))
    /\ UNCHANGED connVars

DeleteItem ==
    /\ ncalls < MaxCalls
    /\ ncalls' = ncalls + 1
    /\ \E id \in ItemIds : ClientStep("delete_item", delete_item(World, id))
    /\ UNCHANGED connVars

\* reset(): disconnect() is made a task that runs later, the handlers of the
\* client's bus and of the api's bus are cleared, _reset_config() runs and
\* _add_api_event_handlers() registers the api's handlers again
Reset ==
    /\ ncalls < MaxCalls
    /\ ncalls' = ncalls + 1
    /\ closing' = Append(closing, 0)
    /\ bus' = clear_event_handlers(bus).bus
    /\ client' = NewClient
    /\ client_last' = [op |-> "reset", raised |-> "", published |-> <<>>]
    /\ UNCHANGED <<engineVars, bus_last, waitVars, playVars, onceVars, api, inbox, listen_task,
                   sent, arrived, applied, transport, connecting>>

\* the event loop runs a disconnect() task that reset() created, up to its
\* first suspension
DisconnectStarts ==
    /\ \E i \in DOMAIN closing :
          /\ closing[i] = 0
          /\ closing' = IF is_connected(api) THEN [closing EXCEPT ![i] = api.ws]
                        ELSE RemoveAt(closing, i)
    /\ ClientStep(IF is_connected(api) THEN "disconnect_called" ELSE "disconnect",
                  disconnect_start(World))
    /\ UNCHANGED <<inbox, listen_task, arrived, transport, ncalls, connecting>>

ClientNext ==
    \/ Connect({0})
    \/ ConnectResume
    \/ ListenStarts
    \/ Disconnect
    \/ DisconnectResume
    \/ CreateResponse
    \/ AppendInputAudio
    \/ ServerSends
    \/ Listen
    \/ ListenEnds

SpecClient == Init /\ [][ClientNext]_vars

(***************************************************************************)
(* The session: connecting, disconnecting, losing the connection and       *)
(* sending, with a server that creates and deletes one item.               *)
(***************************************************************************)
SessionEvents(n) ==
    { [event_id |-> n, type |-> "conversation.item.created",
       item |-> AssistantMessage("a")],
      [event_id |-> n, type |-> "conversation.item.deleted", item_id |-> "a"],
      [event_id |-> n, type |-> "session.created"] }

SessionNext ==
    \/ Connect({0})
    \/ ConnectResume
    \/ ListenStarts
    \/ Disconnect
    \/ DisconnectResume
    \/ ApiSend
    \/ CreateResponse
    \/ Arrives(SessionEvents(Len(arrived) + 1))
    \/ Listen
    \/ ConnectionLost
    \/ ListenClosed
    \/ ListenClosedResume
    \/ ListenEnds

SpecSession == Init /\ [][SessionNext]_vars

\* the life cycle with calls that overlap: a connect() made while another is
\* waiting for its socket, disconnect() calls made while another is waiting
\* for ws.close(), reset(), and the calls that send one event
LifecycleEvents(n) ==
    { [event_id |-> n, type |-> "conversation.item.created",
       item |-> AssistantMessage("a")] }

LifecycleNext ==
    \/ Connect({0, 1})
    \/ ConnectResume
    \/ ListenStarts
    \/ ListenClash
    \/ Disconnect
    \/ DisconnectResume
    \/ Reset
    \/ DisconnectStarts
    \/ SendUserMessageContent
    \/ DeleteItem
    \/ ApiSend
    \/ Arrives(LifecycleEvents(Len(arrived) + 1))
    \/ Listen
    \/ ListenEnds

SpecLifecycle == Init /\ [][LifecycleNext]_vars

\* connections lost while connect() calls overlap
LossNext ==
    \/ Connect({0, 1})
    \/ ConnectResume
    \/ ListenStarts
    \/ ListenClash
    \/ Arrives(LifecycleEvents(Len(arrived) + 1))
    \/ Listen
    \/ ConnectionLost
    \/ ListenClosed
    \/ ListenClosedResume
    \/ ListenEnds

SpecLoss == Init /\ [][LossNext]_vars

\* the first run and the exit of a listen task, a connect() waiting for its
\* socket and a disconnect() waiting for ws.close() are run by the event loop;
\* calls of the application and messages of the server are not bound to happen
SpecSessionLive ==
    /\ Init /\ [][SessionNext]_vars
    /\ WF_vars(ListenStarts) /\ WF_vars(ListenClosed) /\ WF_vars(ListenEnds)
    /\ WF_vars(ListenClosedResume)
    /\ WF_vars(ConnectResume) /\ WF_vars(DisconnectResume)

(***************************************************************************)
(* Turn taking: the session's turn detection, the input-audio buffer,      *)
(* create_response and cancel_response, with a server that creates a user  *)
(* message or a function call a and an assistant message b.                *)
(***************************************************************************)
default_server_vad_config ==
    [type |-> "server_vad", threshold |-> "0.5", prefix_padding_ms |-> 300,
     silence_duration_ms |-> 200]

\* the values update_session(turn_detection=...) is called with
TurnDetections == {EmptyDict, default_server_vad_config, Null}

UpdateSession ==
    /\ ncalls < MaxCalls
    /\ ncalls' = ncalls + 1
    /\ \E td \in TurnDetections :
          ClientStep("update_session", update_session(World, [turn_detection |-> td]))
    /\ UNCHANGED connVars

\* the application assigns client.input_audio_buffer: append_input_audio raises
\* before its "+=" whenever it sends, so no method of the client fills the buffer
SetInputAudioBuffer ==
    /\ client.input_audio_buffer = <<>>
    /\ client' = [client EXCEPT !.input_audio_buffer = <<1, 0>>]
    /\ UNCHANGED <<engineVars, busVars, waitVars, playVars, onceVars, api, inbox, listen_task, sent,
                   client_last, arrived, applied, ncalls, transport, closing,
                   connecting>>

CancelIds == {"", "a", "b"}

\* a step of cancel_response: client_last also keeps the arguments of the call
CancelStep(item_id, sample_count, r) ==
    /\ conversation' = r.w.conversation
    /\ client' = r.w.client
    /\ api' = r.w.api
    /\ sent' = r.w.sent
    /\ applied' = r.w.applied
    /\ client_last' = [op |-> "cancel_response", raised |-> r.raised,
                       published |-> r.w.published, item_id |-> item_id,
                       sample_count |-> sample_count]
    /\ UNCHANGED <<last, nsteps, audio_hist, busVars, waitVars, playVars, onceVars>>

CancelResponse(counts) ==
    /\ ncalls < MaxCalls
    /\ ncalls' = ncalls + 1
    /\ \E id \in CancelIds, n \in counts :
          CancelStep(id, n, cancel_response(World, id, n))
    /\ UNCHANGED connVars

TurnEvents(n) ==
    { [event_id |-> n, type |-> "conversation.item.created",
       item |-> UserMessage("a")],
      [event_id |-> n, type |-> "conversation.item.created",
       item |-> [UserMessage("a") EXCEPT !.role = "system"]],
      [event_id |-> n, type |-> "conversation.item.created",
       item |-> FunctionCall("a")],
      [event_id |-> n, type |-> "conversation.item.created",
       item |-> AssistantMessage("b")] }

TurnNext ==
    \/ Connect({0})
    \/ ConnectResume
    \/ ListenStarts
    \/ UpdateSession
    \/ SetInputAudioBuffer
    \/ CreateResponse
    \/ CancelResponse({0})
    \/ Arrives(TurnEvents(Len(arrived) + 1))
    \/ Listen

SpecTurn == Init /\ [][TurnNext]_vars

\* cancel_response with a server that creates the assistant message a, whose
\* second part is audio, the assistant message b without audio, the user
\* message b and the function call b
CancelEvents(n) ==
    { [event_id |-> n, type |-> "conversation.item.created",
       item |-> PartsMessage("a")],
      [event_id |-> n, type |-> "conversation.item.created",
       item |-> AssistantMessage("b")],
      [event_id |-> n, type |-> "conversation.item.created",
       item |-> UserMessage("b")],
      [event_id |-> n, type |-> "conversation.item.created",
       item |-> FunctionCall("b")] }
\* sample counts of 0 ms, of 2 ms, and of 3 ms less one sample
SampleCounts == {0, 48, 71}

CancelNext ==
    \/ Connect({0})
    \/ ConnectResume
    \/ ListenStarts
    \/ CancelResponse(SampleCounts)
    \/ Arrives(CancelEvents(Len(arrived) + 1))
    \/ Listen

SpecCancel == Init /\ [][CancelNext]_vars

\* a server that creates the assistant message a and streams a response: the
\* response, its output item, a text part of the item and a text delta for
\* that part; it also reports speech heard from 0 ms to 1 ms for the item a
StreamEvents(n) ==
    { [event_id |-> n, type |-> "conversation.item.created",
       item |-> AssistantMessage("a")],
      [event_id |-> n, type |-> "response.created",
       response |-> [id |-> "r", output |-> <<>>]],
      [event_id |-> n, type |-> "response.output_item.added",
       response_id |-> "r", item |-> AssistantMessage("a")],
      [event_id |-> n, type |-> "response.content_part.added",
       item_id |-> "a", content_index |-> 0, part |-> [type |-> "text", text |-> ""]],
      [event_id |-> n, type |-> "response.text.delta",
       item_id |-> "a", content_index |-> 0, delta |-> "y"],
      [event_id |-> n, type |-> "input_audio_buffer.speech_started",
       item_id |-> "a", audio_start_ms |-> 0],
      [event_id |-> n, type |-> "input_audio_buffer.speech_stopped",
       item_id |-> "a", audio_end_ms |-> 1] }

StreamNext ==
    \/ Connect({0})
    \/ ConnectResume
    \/ ListenStarts
    \/ SetInputAudioBuffer
    \/ Arrives(StreamEvents(Len(arrived) + 1))
    \/ Listen

SpecStream == Init /\ [][StreamNext]_vars

(***************************************************************************)
(* Tools: the registry, and a server that creates the function call b,     *)
(* streams its arguments and reports it done.                              *)
(***************************************************************************)
ToolNames == {"lookup", "other"}
\* a handler that returns, one that raises, and None
ToolHandlers == {[returns |-> [result |-> "done"]], [raises |-> "handler failed"], Null}
ToolDefinitions == {[name |-> n] : n \in ToolNames} \cup {EmptyDict}

AddTool ==
    /\ ncalls < MaxCalls
    /\ ncalls' = ncalls + 1
    /\ \E d \in ToolDefinitions, h \in ToolHandlers :
          ClientStep("add_tool", add_tool(World, d, h))
    /\ UNCHANGED connVars

RemoveTool ==
    /\ ncalls < MaxCalls
    /\ ncalls' = ncalls + 1
    /\ \E n \in ToolNames : ClientStep("remove_tool", remove_tool(World, n))
    /\ UNCHANGED connVars

ToolEvents(n) ==
    { [event_id |-> n, type |-> "conversation.item.created",
       item |-> FunctionCall("b")],
      [event_id |-> n, type |-> "response.function_call_arguments.delta",
       item_id |-> "b", delta |-> "{}"] }
    \cup { [event_id |-> n, type |-> "response.output_item.done",
            item |-> [id |-> "b", status |-> st]] : st \in DoneStatuses }

ToolsNext ==
    \/ Connect({0})
    \/ ConnectResume
    \/ ListenStarts
    \/ AddTool
    \/ RemoveTool
    \/ Arrives(ToolEvents(Len(arrived) + 1))
    \/ Listen

SpecTools == Init /\ [][ToolsNext]_vars

(***************************************************************************)
(* Playback: enqueue_audio, clear_audio_queue, stop_playback and shutdown   *)
(* called on one event loop, the render tasks and the threads that write   *)
(* to the output streams, in every interleaving of their steps.            *)
(***************************************************************************)
PlayerStep(m) ==
    /\ player' = m
    /\ UNCHANGED <<engineVars, busVars, clientVars, waitVars, onceVars>>

\* the chunks of a queue, the stop signals left out
ChunksOf(q) == {q[i] : i \in 1..Len(q)} \ {StopSignal}

\* how closing a closed stream ends the task
CloseOutcomes == {"done", "failed"}

EnqueueAudio ==
    /\ player.enqueued < MaxChunks
    /\ PlayerStep([enqueue_audio(player, player.enqueued + 1)
                      EXCEPT !.enqueued = @ + 1])

ClearAudioQueue ==
    /\ player.nclears < MaxClears
    /\ PlayerStep([clear_audio_queue(player)
                      EXCEPT !.nclears = @ + 1,
                             !.cleared = @ \cup ChunksOf(player.audio_queue)])

StopPlayback ==
    /\ player.nstops < MaxStops
    /\ PlayerStep([stop_playback(player) EXCEPT !.nstops = @ + 1])

StopPlaybackResumes ==
    \E i \in 1..Len(player.stopping) :
        /\ player.callers[i] = "stop_playback"
        /\ TaskDone(player, player.stopping[i])
        /\ PlayerStep(stop_playback_resume(player, i))

\* shutdown(): its stop_playback() counts as a stop_playback call
Shutdown ==
    /\ player.nstops < MaxStops
    /\ PlayerStep([shutdown(player) EXCEPT !.nstops = @ + 1])

ShutdownResumes ==
    \E i \in 1..Len(player.stopping) :
        /\ player.callers[i] = "shutdown"
        /\ TaskDone(player, player.stopping[i])
        /\ PlayerStep(shutdown_resume(player, i))

AudioPlayerStarts ==
    \E t \in 1..Len(player.tasks), outcome \in CloseOutcomes :
        /\ player.tasks[t].pc = "new"
        /\ PlayerStep(audio_player_start(player, t, outcome))

AudioPlayerGets ==
    \E t \in 1..Len(player.tasks), outcome \in CloseOutcomes :
        /\ player.tasks[t].pc = "get"
        /\ player.audio_queue # <<>>
        /\ PlayerStep(audio_player_get(player, t, outcome))

StreamWrites ==
    \E t \in 1..Len(player.tasks), outcome \in CloseOutcomes :
        /\ player.tasks[t].pc = "writing"
        /\ PlayerStep(stream_write(player, t, outcome))

PlaybackNext ==
    \/ EnqueueAudio
    \/ ClearAudioQueue
    \/ StopPlayback
    \/ StopPlaybackResumes
    \/ Shutdown
    \/ ShutdownResumes
    \/ AudioPlayerStarts
    \/ AudioPlayerGets
    \/ StreamWrites

SpecPlayback == Init /\ [][PlaybackNext]_vars

\* the event loop runs every task that can run and the threads finish their
\* writes; the application is not bound to call
SpecPlaybackLive ==
    /\ Init /\ [][PlaybackNext]_vars
    /\ WF_vars(StopPlaybackResumes) /\ WF_vars(ShutdownResumes)
    /\ WF_vars(AudioPlayerStarts)
    /\ WF_vars(AudioPlayerGets) /\ WF_vars(StreamWrites)

(***************************************************************************)
(* Properties of the Conversation Engine.                                  *)
(***************************************************************************)
ItemIdsOf(c) == {c.items[i] : i \in 1..Len(c.items)}

\* a call of process_event has just been made
Called == last'.op = "process_event" /\ nsteps' = nsteps + 1

\* C1: the ids in the id-indexed lookup are exactly the ids in the ordered item
\* list, every lookup entry is filed under its own id, and no id occurs twice in
\* the list
C1_LookupMatchesList ==
    /\ DOMAIN conversation.item_lookup = ItemIdsOf(conversation)
    /\ \A k \in DOMAIN conversation.item_lookup : conversation.item_lookup[k].id = k
    /\ \A i, j \in 1..Len(conversation.items) :
          i # j => conversation.items[i] # conversation.items[j]

\* two items were created and one of them deleted
C1_Witness ==
    /\ last.op = "process_event"
    /\ last.raised = ""
    /\ TypeOf(last.event) = "conversation.item.deleted"
    /\ Len(conversation.items) = 1
    /\ conversation.items[1] # last.event.item_id

\* C3: item.created for an id that is not in the table and has a queued
\* transcript stores an item whose formatted.transcript is that transcript, and
\* removes the queued entry
C3_QueuedTranscriptClaimed ==
    [][ ( /\ Called
          /\ TypeOf(last'.event) = "conversation.item.created"
          /\ ~Has(conversation.item_lookup, last'.event.item.id)
          /\ Has(conversation.queued_transcript_items, last'.event.item.id) )
        => LET id == last'.event.item.id
           IN /\ last'.raised = ""
              /\ Has(conversation'.item_lookup, id)
              /\ conversation'.item_lookup[id].formatted.transcript
                    = conversation.queued_transcript_items[id].transcript
              /\ ~Has(conversation'.queued_transcript_items, id) ]_vars

\* C4: once an item has been truncated, its audio is the prefix the truncation
\* kept followed by the samples of the audio deltas received since, in order
C4_DeltaExtendsTruncated ==
    \A id \in DOMAIN audio_hist :
        /\ Has(conversation.item_lookup, id)
        /\ conversation.item_lookup[id].formatted.audio
              = audio_hist[id].prefix \o audio_hist[id].since

\* a truncation cut samples off and an audio delta has been appended since
C4_Witness ==
    \E id \in DOMAIN audio_hist :
        /\ audio_hist[id].cut > 0
        /\ audio_hist[id].prefix # <<>>
        /\ audio_hist[id].since # <<>>
        /\ TypeOf(last.event) = "response.audio.delta"

\* C5: a truncation that immediately follows a truncation of the same item, with
\* a sample cutoff of at least the item's audio length, changes neither
\* formatted.audio nor formatted.transcript
C5_TruncateAgainNoOp ==
    [][ (Called /\ last'.again)
        => LET id == last'.event.item_id
           IN /\ conversation'.item_lookup[id].formatted.audio
                    = conversation.item_lookup[id].formatted.audio
              /\ conversation'.item_lookup[id].formatted.transcript
                    = conversation.item_lookup[id].formatted.transcript ]_vars

\* the first truncation cut a 25-sample item to 24 samples, the second had the
\* larger bound
C5_Witness ==
    /\ last.again
    /\ last.event.audio_end_ms = 2
    /\ Len(conversation.item_lookup[last.event.item_id].formatted.audio) = 24

\* the processors that look up an item or a response
ReferencingTypes ==
    { "conversation.item.truncated", "conversation.item.deleted",
      "response.output_item.added", "response.output_item.done",
      "response.content_part.added", "response.audio_transcript.delta",
      "response.text.delta", "response.audio.delta",
      "response.function_call_arguments.delta" }

\* the event names an item id or a response id that does not exist
NamesMissingId(c, e) ==
    /\ TypeOf(e) \in ReferencingTypes
    /\ IF e.type = "response.output_item.added"
       THEN ~Has(c.response_lookup, e.response_id)
       ELSE IF e.type = "response.output_item.done"
       THEN ~Has(c.item_lookup, e.item.id)
       ELSE ~Has(c.item_lookup, e.item_id)

\* the event of one of the given types names an existing item and a content
\* index at or beyond the end of its content
NamesMissingIndex(c, e, types) ==
    /\ TypeOf(e) \in types
    /\ Has(c.item_lookup, e.item_id)
    /\ e.content_index >= 0
    /\ LET item == c.item_lookup[e.item_id]
       IN ~Has(item, "content") \/ e.content_index >= Len(item.content)

\* C7 as stated: an event of a referencing processor that names a missing id, or
\* (the three deltas that carry a content index) a missing index, fails and
\* leaves the conversation unchanged
C7_Original ==
    [][ ( /\ Called
          /\ \/ NamesMissingId(conversation, last'.event)
             \/ NamesMissingIndex(conversation, last'.event,
                    {"response.audio_transcript.delta", "response.text.delta",
                     "response.audio.delta"}) )
        => (last'.raised # "" /\ conversation' = conversation) ]_vars

\* C7 amended: a missing id fails every referencing processor, and a missing
\* index fails audio_transcript.delta and text.delta, with the conversation
\* unchanged; audio.delta is not included for the index
C7_MissingReferenceFails ==
    [][ ( /\ Called
          /\ \/ NamesMissingId(conversation, last'.event)
             \/ NamesMissingIndex(conversation, last'.event,
                    {"response.audio_transcript.delta", "response.text.delta"}) )
        => (last'.raised # "" /\ conversation' = conversation) ]_vars

\* a text delta named an index beyond the content of an existing item and failed
C7_Witness ==
    /\ last.op = "process_event"
    /\ TypeOf(last.event) = "response.text.delta"
    /\ Has(conversation.item_lookup, last.event.item_id)
    /\ last.event.content_index = 1
    /\ last.raised = "IndexError"

\* C8: an event without event_id, without type, or of a type that has no
\* processor fails and leaves the conversation unchanged
C8_BadEnvelopeFails ==
    [][ ( /\ Called
          /\ \/ ~Has(last'.event, "event_id")
             \/ ~Has(last'.event, "type")
             \/ last'.event.type \notin EventProcessors )
        => (last'.raised # "" /\ conversation' = conversation) ]_vars

\* an event of an unregistered type was rejected while the table held an item
C8_Witness ==
    /\ last.op = "process_event"
    /\ Has(last.event, "type")
    /\ last.event.type \notin EventProcessors
    /\ last.raised = "ValueError"
    /\ conversation.items # <<>>

(***************************************************************************)
(* Properties of the event bus.                                            *)
(***************************************************************************)
\* C9: dispatch on a topic invokes every permanent subscriber of that topic in
\* registration order, then every one-shot subscriber of it in registration
\* order, and leaves the topic without one-shot list; the permanent lists and
\* the one-shot lists of the other topics are unchanged
C9_PublishOrder ==
    [][ bus_last'.op = "dispatch"
        => LET t == bus_last'.topic
           IN /\ bus_last'.invoked = GetList(bus.event_handlers, t)
                                     \o GetList(bus.next_event_handlers, t)
              /\ bus'.event_handlers = bus.event_handlers
              /\ ~Has(bus'.next_event_handlers, t)
              /\ \A u \in Topics \ {t} :
                    /\ Has(bus'.next_event_handlers, u) = Has(bus.next_event_handlers, u)
                    /\ GetList(bus'.next_event_handlers, u)
                          = GetList(bus.next_event_handlers, u) ]_vars

\* the list off / off_next addresses for a topic
AddressedList(b, op, t) ==
    IF op = "off" THEN GetList(b.event_handlers, t) ELSE GetList(b.next_event_handlers, t)

\* C10: off / off_next with a callback that is not registered for the topic
\* fails and leaves every subscription list unchanged
C10_UnsubscribeUnknownFails ==
    [][ ( /\ bus_last'.op \in {"off", "off_next"}
          /\ bus_last'.callback # <<>>
          /\ ~InList(AddressedList(bus, bus_last'.op, bus_last'.topic),
                     bus_last'.callback[1]) )
        => (bus_last'.raised # "" /\ bus' = bus) ]_vars

(***************************************************************************)
(* Properties of the client.                                               *)
(***************************************************************************)
\* a listen task takes the oldest unread message of socket s
ListenReads(s) ==
    /\ inbox[s] # <<>>
    /\ inbox' = [inbox EXCEPT ![s] = Tail(@)]
    /\ client_last'.op = "listen"
\* a listen task takes a message: the socket it reads and the message taken
ListenReceives == \E s \in DOMAIN inbox : ListenReads(s)
ReadSocket == CHOOSE s \in DOMAIN inbox : ListenReads(s)
Received == Head(inbox[ReadSocket])
\* the listen tasks that were reading that socket still are
StillListening ==
    \A t \in DOMAIN listen_task :
        (listen_task[t].pc = "running" /\ listen_task[t].ws = ReadSocket)
            => listen_task'[t].pc = "running"
\* some listen task is reading a socket
Listening == \E t \in DOMAIN listen_task : listen_task[t].pc = "running"

\* C2: the events passed to the Conversation Engine are passed in the order in
\* which they arrived on the connection, each at most once, and only events
\* that the listen task has taken from the connection
C2_AppliedInArrivalOrder ==
    /\ \A i, j \in 1..Len(applied) :
          i < j => /\ applied[i] # applied[j]
                   /\ arrived[applied[i]] = arrived[applied[j]]
                      => applied[i] < applied[j]
    /\ \A i \in 1..Len(applied) :
          /\ applied[i] \in 1..Len(arrived)
          /\ \A k \in 1..Len(inbox[arrived[applied[i]]]) :
                inbox[arrived[applied[i]]][k].event_id > applied[i]

\* two events have been applied, a third waits, and the client sent in between
C2_Witness ==
    /\ Len(applied) >= 2
    /\ \E s \in DOMAIN inbox : inbox[s] # <<>>
    /\ \E i \in 1..Len(sent) : sent[i].type = "input_audio_buffer.append"

\* C6: when a handler run by the listen task fails, the listen task keeps
\* running and the client stays connected
C6_FailedEventOnlyDropped ==
    [][ (ListenReceives /\ client_last'.raised # "")
        => (StillListening /\ is_connected(api')) ]_vars

(***************************************************************************)
(* Properties of wait_for_next.                                            *)
(***************************************************************************)
\* a timeout was given (a timeout of 0 is taken as none, as the code takes it)
HasTimeout(wt) == wt.timeout # <<>> /\ wt.timeout[1] # 0

\* C11: when wait_for_next returns a payload, it is the payload of the first
\* dispatch on the topic after the call and that dispatch happened no later
\* than the timeout; when it returns the timeout signal, a timeout was given
\* and no dispatch on the topic happened before it elapsed
C11_FirstPublishOrTimeout ==
    [][ (waiter.pc = "waiting" /\ waiter'.pc = "returned")
        => IF waiter'.result # <<>>
           THEN /\ waiter'.result = waiter.first
                /\ \/ ~HasTimeout(waiter)
                   \/ waiter.fired_at - waiter.t0 <= waiter.timeout[1]
           ELSE /\ HasTimeout(waiter)
                /\ \/ waiter.fired_at = -1
                   \/ waiter.fired_at - waiter.t0 >= waiter.timeout[1] ]_vars

(***************************************************************************)
(* Properties of the session: connect, disconnect, loss, send.             *)
(***************************************************************************)
\* a call of the client has just been made
ClientCalled(ops) == ncalls' = ncalls + 1 /\ client_last'.op \in ops

\* connect() has just returned or raised
ConnectReturned ==
    /\ client_last'.op = "connect"
    /\ connecting' < connecting \/ ncalls' = ncalls + 1

\* disconnect() has just returned
DisconnectReturned ==
    /\ client_last'.op = "disconnect"
    /\ Len(closing') < Len(closing) \/ ncalls' = ncalls + 1

\* C12: when disconnect() returns, with or without a connection at the call,
\* the conversation holds no items, responses, queued spans, queued transcripts
\* or queued input audio
C12_DisconnectClears ==
    [][ DisconnectReturned => conversation' = ClearedConversation ]_vars

\* a disconnect() returned on a connection over which an item had been created
C12_Witness ==
    /\ client_last.op = "disconnect"
    /\ \E s \in DOMAIN transport : transport[s] = "closed"
    /\ \E t \in DOMAIN listen_task : listen_task[t].pc = "done"
    /\ applied # <<>>
    /\ conversation = ClearedConversation

\* C13: connect() while connected fails and changes neither the connection nor
\* the conversation; disconnect() while not connected does not fail and leaves
\* the transport alone; a connect() that fails leaves is_connected() as it
\* was, one that succeeds makes it true, and a returned disconnect() makes it
\* false
C13_ConnectDisconnectIdempotent ==
    [][ /\ (ClientCalled({"connect"}) /\ is_connected(api))
           => /\ client_last'.raised # ""
              /\ api' = api /\ transport' = transport
              /\ conversation' = conversation
        /\ (ClientCalled({"disconnect"}) /\ ~is_connected(api))
           => /\ client_last'.raised = ""
              /\ api' = api /\ transport' = transport
        /\ ConnectReturned
           => is_connected(api') = (client_last'.raised = "" \/ is_connected(api))
        /\ DisconnectReturned => ~is_connected(api') ]_vars

\* C14: once the connection is lost, with the listen task alive and the
\* messages received before the loss read, the client eventually is marked
\* disconnected with the conversation cleared
C14_LossTornDown ==
    (\E t \in DOMAIN listen_task :
        /\ listen_task[t].pc = "running"
        /\ transport[listen_task[t].ws] \in {"lost_error", "lost_ok"}
        /\ inbox[listen_task[t].ws] = <<>>)
        ~> (~is_connected(api) /\ conversation = ClearedConversation)

\* C15: a send while not connected raises, hands nothing to the socket and
\* publishes nothing
C15_SendNotConnected ==
    [][ ( /\ ClientCalled({"send", "create_response", "append_input_audio",
                            "delete_item", "send_user_message_content"})
          /\ ~is_connected(api) )
        => /\ client_last'.raised = "RuntimeError"
           /\ sent' = sent
           /\ client_last'.published = <<>> ]_vars

\* a direct send was refused after the connection had been used and closed
C15_Witness ==
    /\ client_last.op = "send"
    /\ client_last.raised = "RuntimeError"
    /\ ~is_connected(api)
    /\ sent # <<>>

\* the types of the events a step handed to the socket, in order
SentTypes(seq) == [i \in 1..Len(seq) |-> seq[i].type]
NewlySent == SubSeq(sent', Len(sent) + 1, Len(sent'))

\* C16: create_response() on a connection, the turn detection not being null:
\* without a turn-detection type and with a non-empty input-audio buffer it
\* sends the commit, queues the buffer in the conversation and empties the
\* buffer before it sends response.create; otherwise it sends response.create
\* only and changes neither the buffer nor the queued input audio
C16_CommitBeforeResponse ==
    [][ ( /\ ClientCalled({"create_response"})
          /\ is_connected(api)
          /\ ~IsNull(client.session_config.turn_detection) )
        => IF TurnDetectionType(client).type = "" /\ client.input_audio_buffer # <<>>
           THEN /\ SentTypes(NewlySent) = <<"input_audio_buffer.commit", "response.create">>
                /\ conversation' = queue_input_audio(conversation, client.input_audio_buffer)
                /\ client'.input_audio_buffer = <<>>
           ELSE /\ SentTypes(NewlySent) = <<"response.create">>
                /\ client'.input_audio_buffer = client.input_audio_buffer
                /\ conversation'.queued_input_audio = conversation.queued_input_audio
      ]_vars

\* the registry entries, as the list add_tool builds from self.tools.items()
RegisteredTools(cl) == {cl.tools[n] : n \in DOMAIN cl.tools}
ConfiguredTools(cl) ==
    {cl.session_config.tools[i] : i \in 1..Len(cl.session_config.tools)}

\* C17: after an add_tool or remove_tool that returned, the tools of the
\* session configuration are the registered tools, one entry each, and on a
\* connection the step handed one session.update carrying that configuration
\* to the socket
C17_ToolListRepublished ==
    [][ (ClientCalled({"add_tool", "remove_tool"}) /\ client_last'.raised = "")
        => /\ ConfiguredTools(client') = RegisteredTools(client')
           /\ Len(client'.session_config.tools) = Cardinality(DOMAIN client'.tools)
           /\ is_connected(api)
              => /\ SentTypes(NewlySent) = <<"session.update">>
                 /\ NewlySent[1].session = client'.session_config ]_vars

(***************************************************************************)
(* Properties of tool calls.                                               *)
(***************************************************************************)
\* the listen task takes a message of the given type from the connection
ListenTakes(type) == ListenReceives /\ Received.type = type

\* the message at the head of the connection reports a stored function call done
DoneOfFunctionCall ==
    /\ ListenTakes("response.output_item.done")
    /\ Has(conversation.item_lookup, Received.item.id)
    /\ Has(conversation.item_lookup[Received.item.id].formatted, "tool")

\* the tool of that function call, its registration and its handler
DoneTool == conversation.item_lookup[Received.item.id].formatted.tool
Unregistered(tool) == ~Has(client.tools, tool.name)
HandlerFails(tool) ==
    Has(client.tools, tool.name) /\ Has(client.tools[tool.name].handler, "raises")
NotAdded(tool) == "Tool \"" \o tool.name \o "\" has not been added"

\* the step sent one function_call_output for the call, carrying an error
\* payload, raised nothing and left the listen task running on the connection
OneErrorOutput(tool) ==
    /\ Len(NewlySent) = 1
    /\ NewlySent[1].type = "conversation.item.create"
    /\ NewlySent[1].item.type = "function_call_output"
    /\ NewlySent[1].item.call_id = tool.call_id
    /\ Has(NewlySent[1].item.output, "error")
    /\ client_last'.raised = ""
    /\ StillListening
    /\ is_connected(api')

C19_ToolCallOnlyWhenCompleted ==
    [][ ListenTakes("response.output_item.done")
        => /\ Len(NewlySent) <= 1
           /\ NewlySent # <<>>
              => /\ Received.item.status = "completed"
                 /\ DoneOfFunctionCall
           /\ Received.item.status # "completed" => NewlySent = <<>> ]_vars

(***************************************************************************)
(* Properties of cancel_response.                                          *)
(***************************************************************************)
RoleMismatch == "Exception: Can only cancel_response messages with role \"assistant\""

\* cancel_response has just been called with the id of a stored message whose
\* role is not assistant
CancelOfOtherRole ==
    /\ ClientCalled({"cancel_response"})
    /\ Has(conversation.item_lookup, client_last'.item_id)
    /\ conversation.item_lookup[client_last'.item_id].type = "message"
    /\ conversation.item_lookup[client_last'.item_id].role # "assistant"

\* C20: cancel_response with the id of a message whose role is not assistant
\* fails with the role error and hands nothing to the socket
C20_CancelWrongRoleFails ==
    [][ CancelOfOtherRole
        => /\ client_last'.raised = RoleMismatch
           /\ sent' = sent
           /\ client_last'.published = <<>> ]_vars

\* on a connection, cancel_response was refused for the user message a
C20_Witness ==
    /\ client_last.op = "cancel_response"
    /\ client_last.item_id = "a"
    /\ client_last.raised = RoleMismatch
    /\ is_connected(api)
    /\ Has(conversation.item_lookup, "a")
    /\ conversation.item_lookup["a"].role = "user"

(***************************************************************************)
(* Properties of the playback queue.                                       *)
(***************************************************************************)
\* C21: the chunks written to the output device are written in the order in
\* which they were enqueued
C21_PlayedInEnqueueOrder ==
    \A i, j \in 1..Len(player.device) :
        i < j => player.device[i] < player.device[j]

\* C22: a chunk that a clear took out of the queue is never written to the
\* output device
C22_ClearedNeverPlayed ==
    \A i \in 1..Len(player.device) : player.device[i] \notin player.cleared

\* a clear removed two pending chunks, and a chunk enqueued after it was played
C22_Witness ==
    /\ Cardinality(player.cleared) >= 2
    /\ \E i \in 1..Len(player.device) :
          \A c \in player.cleared : player.device[i] > c

\* the chunks waiting in the queue
Pending(m) == ChunksOf(m.audio_queue)
Played(m) == {m.device[i] : i \in 1..Len(m.device)}

\* C23, as long as stop_playback is called at most once: every chunk that is
\* enqueued is eventually written to the output device or taken out of the
\* queue by a clear
C23_EnqueuedEventuallyPlayed ==
    \A c \in 1..MaxChunks :
        (c \in Pending(player))
            ~> (c \in Played(player) \/ c \in player.cleared \/ player.nstops > 1)

\* a stop_playback call has just been made while a render task was running
StopCalledOnRunning ==
    /\ player'.nstops = player.nstops + 1
    /\ player.playback_task # NoTask
    /\ ~TaskDone(player, player.playback_task)

\* a stop_playback call has just returned
StopReturned ==
    /\ player'.returned = "returned"
    /\ \/ Len(player'.stopping) < Len(player.stopping)
       \/ player'.nstops = player.nstops + 1

\* C24: a stop_playback called on a running render task puts exactly one stop
\* signal in the queue; when a stop_playback that waited returns, the task it
\* waited for has ended, and no stop signal is left in the queue
C24_StopLeavesNoSignal ==
    [][ /\ StopCalledOnRunning
           => player'.audio_queue = Append(player.audio_queue, StopSignal)
        /\ (StopReturned /\ Len(player'.stopping) < Len(player.stopping))
           => /\ \E i \in 1..Len(player.stopping) :
                    /\ player'.stopping = RemoveAt(player.stopping, i)
                    /\ TaskDone(player', player.stopping[i])
              /\ \A i \in 1..Len(player'.audio_queue) :
                    player'.audio_queue[i] # StopSignal ]_vars


(***************************************************************************)
(* Properties of item creation, transcription and speech spans.            *)
(***************************************************************************)
\* the samples of buffer with 0-based index from lo up to but excluding hi
SamplesBetween(buffer, lo, hi) ==
    LET first == Min(lo, Len(buffer))
        stop == Min(hi, Len(buffer))
    IN IF stop <= first THEN <<>> ELSE [i \in 1..(stop - first) |-> buffer[first + i]]

SpeechEvent == TypeOf(last'.event) \in {"input_audio_buffer.speech_started",
                                        "input_audio_buffer.speech_stopped"}
\* this call is speech.stopped for an id whose span speech.started queued
StoppedAfterStarted ==
    /\ Called
    /\ TypeOf(last'.event) = "input_audio_buffer.speech_stopped"
    /\ Has(conversation.queued_speech_items, last'.event.item_id)

\* C25: speech.stopped for an id whose span speech.started opened leaves the
\* span's audio equal to the samples of the input buffer from index
\* floor(audio_start_ms * 24000 / 1000) up to but excluding
\* floor(audio_end_ms * 24000 / 1000); speech.started and speech.stopped
\* change no item of the table and return (null, null)
C25_SpeechSpanSlice ==
    [][/\ StoppedAfterStarted =>
             LET id == last'.event.item_id
                 lo == (conversation.queued_speech_items[id].audio_start_ms * 24000) \div 1000
                 hi == (last'.event.audio_end_ms * 24000) \div 1000
             IN /\ Has(conversation'.queued_speech_items, id)
                /\ conversation'.queued_speech_items[id].audio
                      = SamplesBetween(InputBuffer, lo, hi)
       /\ (Called /\ SpeechEvent) =>
             /\ conversation'.item_lookup = conversation.item_lookup
             /\ conversation'.items = conversation.items
             /\ last'.raised = ""
             /\ last'.item = Null
             /\ last'.delta = Null]_vars
\* speech.stopped at 2 ms has just closed a span that speech.started opened at
\* 1 ms, next to an item in the table
C25_Witness ==
    /\ last.op = "process_event"
    /\ TypeOf(last.event) = "input_audio_buffer.speech_stopped"
    /\ last.event.audio_end_ms = 2
    /\ Has(conversation.queued_speech_items, last.event.item_id)
    /\ conversation.queued_speech_items[last.event.item_id].audio_start_ms = 1
    /\ conversation.queued_speech_items[last.event.item_id].audio
          = <<25, 26, 27, 28, 29, 30>>
    /\ conversation.items # <<>>

\* this call is a successful item.created
Created ==
    /\ Called
    /\ TypeOf(last'.event) = "conversation.item.created"
    /\ last'.raised = ""
\* this call is an item.created for an id that is not in the table, whatever
\* its outcome
CreatesNew ==
    /\ Called
    /\ TypeOf(last'.event) = "conversation.item.created"
    /\ ~Has(conversation.item_lookup, last'.event.item.id)

\* the status item.created gives an item of this type and role
StatusOf(item) ==
    IF item.type = "message"
    THEN (IF item.role = "user" THEN "completed" ELSE "in_progress")
    ELSE IF item.type = "function_call" THEN "in_progress"
    ELSE "completed"
RECURSIVE Concat(_)
Concat(texts) == IF texts = <<>> THEN "" ELSE Head(texts) \o Concat(Tail(texts))
IsTextPart(part) == part.type \in {"text", "input_text"}
\* the texts of the text and input_text parts, in order, concatenated
TextOf(item) ==
    IF ~Has(item, "content") THEN ""
    ELSE LET parts == SelectSeq(item.content, IsTextPart)
         IN Concat([i \in 1..Len(parts) |-> parts[i].text])

\* C26: an item that item.created puts in the table has a status that depends
\* on its type and role alone (user message completed, other message
\* in_progress, function_call in_progress with formatted.tool seeded with
\* empty arguments, function_call_output completed) and a formatted.text that
\* is the concatenation, in order, of the text of its text and input_text parts
C26_StatusAndTextOnCreate ==
    [][(CreatesNew /\ Has(conversation'.item_lookup, last'.event.item.id)) =>
         LET item == last'.event.item
             stored == conversation'.item_lookup[item.id]
         IN /\ stored.status = StatusOf(item)
            /\ stored.formatted.text = TextOf(item)
            /\ item.type = "function_call" =>
                  /\ Has(stored.formatted, "tool")
                  /\ stored.formatted.tool =
                        [type |-> "function", name |-> item.name,
                         call_id |-> item.call_id, arguments |-> ""]]_vars

\* this call is a successful item.created for an id already in the table
CreatedAgain == Created /\ Has(conversation.item_lookup, last'.event.item.id)

\* C27: item.created for an id already in the table leaves the lookup with the
\* same entries' ids and the ordered list as it was, and the item held in the
\* table for that id carries the formatted projection this call computed
C27_RecreateRecomputesStored ==
    [][CreatedAgain =>
         LET id == last'.event.item.id
         IN /\ DOMAIN conversation'.item_lookup = DOMAIN conversation.item_lookup
            /\ conversation'.items = conversation.items
            /\ conversation'.item_lookup[id].formatted = last'.item.formatted]_vars

\* this call is a transcription.completed, whatever its outcome
Transcribes ==
    /\ Called
    /\ TypeOf(last'.event) = "conversation.item.input_audio_transcription.completed"
\* a single space for the empty transcript, the transcript itself otherwise
SpaceIfEmpty(transcript) == IF transcript = "" THEN " " ELSE transcript

\* C28: transcription.completed leaves formatted.transcript of an item in the
\* table, or the transcript queued for an id not in the table, equal to the
\* event's transcript, and to a single space when that is empty; an
\* item.created that returns for an id with a queued transcript leaves that
\* transcript as formatted.transcript of the item in the table and takes it
\* from the queue
C28_EmptyTranscriptIsSpace ==
    [][/\ Transcribes =>
             LET id == last'.event.item_id
                 t == SpaceIfEmpty(last'.event.transcript)
             IN IF Has(conversation.item_lookup, id)
                THEN conversation'.item_lookup[id].formatted.transcript = t
                ELSE /\ Has(conversation'.queued_transcript_items, id)
                     /\ conversation'.queued_transcript_items[id].transcript = t
       /\ (Created /\ Has(conversation.queued_transcript_items, last'.event.item.id)) =>
             LET id == last'.event.item.id
                 queued == conversation.queued_transcript_items[id].transcript
             IN /\ conversation'.item_lookup[id].formatted.transcript = queued
                /\ ~Has(conversation'.queued_transcript_items, id)]_vars

(***************************************************************************)
(* Properties of the mirroring of raw events and of cancel_response.       *)
(***************************************************************************)
IsRealtimeEvent(p) == p.topic = "realtime.event"
RECURSIVE EventsFrom(_, _)
\* the events of the payloads that name this source, in order
EventsFrom(payloads, source) ==
    IF payloads = <<>> THEN <<>>
    ELSE (IF Head(payloads).payload.source = source
          THEN <<Head(payloads).payload.event>> ELSE <<>>)
         \o EventsFrom(Tail(payloads), source)
\* the events of the realtime.event publications of this step with this source
Mirrored(source) ==
    EventsFrom(SelectSeq(client_last'.published, IsRealtimeEvent), source)
\* C29: a step that receives an event publishes exactly one realtime.event
\* with source server, carrying that event, also when a handler of the event's
\* own topic fails; a step that hands events to the transport publishes
\* exactly one realtime.event with source client for each of them, in order
C29_EveryEventMirrored ==
    [][/\ ListenReceives => Mirrored("server") = <<Received>>
       /\ Len(sent') > Len(sent) => Mirrored("client") = NewlySent]_vars

IsAudioPart(part) == part.type = "audio"
\* the 0-based index of the first audio part of the content
FirstAudioIndex(content) ==
    CHOOSE i \in 0..(Len(content) - 1) :
        /\ IsAudioPart(content[i + 1])
        /\ \A j \in 0..(i - 1) : ~IsAudioPart(content[j + 1])
\* cancel_response has just been called on a connection with the id of a
\* stored assistant message that has an audio part
CancelOfAudioMessage ==
    /\ ClientCalled({"cancel_response"})
    /\ is_connected(api)
    /\ Has(conversation.item_lookup, client_last'.item_id)
    /\ conversation.item_lookup[client_last'.item_id].type = "message"
    /\ conversation.item_lookup[client_last'.item_id].role = "assistant"
    /\ \E i \in 1..Len(conversation.item_lookup[client_last'.item_id].content) :
          IsAudioPart(conversation.item_lookup[client_last'.item_id].content[i])
\* cancel_response has just been called on a connection without an item id
CancelOfNothing ==
    /\ ClientCalled({"cancel_response"})
    /\ is_connected(api)
    /\ client_last'.item_id = ""
BareCancel == [event_id |-> "evt_", type |-> "response.cancel"]

\* C30: cancel_response with the id of an assistant message that has an audio
\* part sends exactly a cancel and then a truncate of that item, whose
\* content_index is the index of the first audio part and whose audio_end_ms
\* is sample_count in whole milliseconds at 24000 Hz; without an id it sends
\* exactly one bare cancel
C30_CancelThenTruncate ==
    [][/\ CancelOfAudioMessage =>
             NewlySent =
               << BareCancel,
                  [event_id |-> "evt_", type |-> "conversation.item.truncate",
                   item_id |-> client_last'.item_id,
                   content_index |->
                       FirstAudioIndex(conversation.item_lookup[client_last'.item_id].content),
                   audio_end_ms |-> (client_last'.sample_count * 1000) \div 24000] >>
       /\ CancelOfNothing => NewlySent = <<BareCancel>>]_vars

(***************************************************************************)
(* Properties of the manual mode set by a null turn detection.             *)
(***************************************************************************)
\* create_response has just been called on a connection whose session
\* configuration holds a null turn detection
CreateResponseInNullMode ==
    /\ ClientCalled({"create_response"})
    /\ is_connected(api)
    /\ IsNull(client.session_config.turn_detection)

\* C31: with the turn detection of the session set to null,
\* get_turn_detection_type reports no detection type without raising, and
\* create_response with a non-empty input-audio buffer hands the commit of
\* the buffer to the socket
C31_NullTurnDetectionIsManual ==
    [][CreateResponseInNullMode =>
         /\ TurnDetectionType(client) = [raised |-> "", type |-> ""]
         /\ client_last'.raised # "AttributeError"
         /\ client.input_audio_buffer # <<>> =>
               /\ NewlySent # <<>>
               /\ NewlySent[1].type = "input_audio_buffer.commit"]_vars

(***************************************************************************)
(* Properties of the formatted projection of the items in the table.       *)
(***************************************************************************)
\* the item carries a formatted projection with text, transcript and audio
HasProjection(item) ==
    /\ Has(item, "formatted")
    /\ {"text", "transcript", "audio"} \subseteq DOMAIN item.formatted
\* the projection and the status are those item.created derives for the item
FullyFormatted(stored, item) ==
    /\ HasProjection(stored)
    /\ stored.formatted.text = TextOf(item)
    /\ stored.status = StatusOf(item)
\* this call is an item.created, returned or raised, for an id not in the table
CreateOfNewId ==
    /\ Called
    /\ TypeOf(last'.event) = "conversation.item.created"
    /\ ~Has(conversation.item_lookup, last'.event.item.id)

\* C32: every item in the table has a formatted projection with text,
\* transcript and audio, and an item.created for a new id, also one that
\* arrives between speech.started and speech.stopped of that id, either
\* stores the fully formatted item or leaves the table as it was
C32_StoredItemsFullyFormatted ==
    [][/\ \A id \in DOMAIN conversation'.item_lookup :
             HasProjection(conversation'.item_lookup[id])
       /\ CreateOfNewId =>
             LET item == last'.event.item
             IN \/ /\ conversation'.item_lookup = conversation.item_lookup
                   /\ conversation'.items = conversation.items
                \/ /\ Has(conversation'.item_lookup, item.id)
                   /\ FullyFormatted(conversation'.item_lookup[item.id], item)]_vars

(***************************************************************************)
(* Properties of the one-shot subscriptions.                               *)
(***************************************************************************)
\* the numbers of the one-shot registrations the bus holds for a topic
OnceHeldFor(b, t) ==
    {GetList(b.next_event_handlers, t)[i].id :
        i \in 1..Len(GetList(b.next_event_handlers, t))}
\* the numbers of the one-shot registrations the bus holds
OnceHeld(b) == UNION {OnceHeldFor(b, t) : t \in Topics}
\* how often the registration was invoked
TimesCalled(calls, id) == Cardinality({i \in 1..Len(calls) : calls[i] = id})
\* the registrations this step invoked
CalledNow == {once'.calls[i] : i \in (Len(once.calls) + 1)..Len(once'.calls)}
\* a dispatch has just run on a bus of callbacks that may raise or register
Dispatched == bus_last'.op = "dispatch" /\ once'.dispatches = once.dispatches + 1

\* C34: no one-shot registration is invoked twice; a dispatch that returns
\* invokes every one-shot registration its topic held; and a registration,
\* made before the dispatch or by a callback running in it, leaves the bus
\* only when it has been invoked
C34_OneShotExactlyOnce ==
    [][Dispatched =>
         /\ \A id \in 1..once'.registered : TimesCalled(once'.calls, id) <= 1
         /\ bus_last'.raised = "" =>
               OnceHeldFor(bus, bus_last'.topic) \subseteq CalledNow
         /\ \A id \in 1..once'.registered :
               id \notin OnceHeld(bus') => TimesCalled(once'.calls, id) = 1]_vars

(***************************************************************************)
(* Properties of the render tasks.                                         *)
(***************************************************************************)
\* the render tasks that were created and have not finished
LiveTasks(m) == {t \in 1..Len(m.tasks) : ~TaskDone(m, t)}

\* C33: at most one render task that has not finished exists at any time, so
\* the manager never forgets a running task and starts a second one
C33_AtMostOneRenderTask ==
    /\ Cardinality(LiveTasks(player)) <= 1
    /\ LiveTasks(player) \subseteq {player.playback_task}

(***************************************************************************)
(* Properties of the forwarding of server events to the engine.            *)
(***************************************************************************)
\* the listen task takes an event whose type has a processor in the engine
ListenReceivesProcessed == ListenReceives /\ Received.type \in EventProcessors
\* the event taken announces a content part of an item in the table
PartAnnounced ==
    /\ Received.type = "response.content_part.added"
    /\ Has(conversation.item_lookup, Received.item_id)

\* C35: every received event whose type has a processor is passed to
\* process_event exactly once by the step that receives it, and a content
\* part announced for an item in the table is in the item's content after
\* that step
C35_ProcessorEventsForwarded ==
    [][ListenReceivesProcessed =>
         /\ applied' = Append(applied, Received.event_id)
         /\ PartAnnounced =>
               conversation'.item_lookup[Received.item_id].content =
                   Append(conversation.item_lookup[Received.item_id].content,
                          Received.part)]_vars

(***************************************************************************)
(* Properties of a cancel_response that fails.                             *)
(***************************************************************************)
HasAudioPart(item) ==
    /\ Has(item, "content")
    /\ \E i \in 1..Len(item.content) : IsAudioPart(item.content[i])
\* the item id names no item, an item that is not a message, a message of
\* another role, or an assistant message without audio part
NotCancellable(c, item_id) ==
    \/ ~Has(c.item_lookup, item_id)
    \/ c.item_lookup[item_id].type # "message"
    \/ c.item_lookup[item_id].role # "assistant"
    \/ ~HasAudioPart(c.item_lookup[item_id])
\* cancel_response has just been called on a connection with such an item id
CancelOfNotCancellable ==
    /\ ClientCalled({"cancel_response"})
    /\ is_connected(api)
    /\ client_last'.item_id # ""
    /\ NotCancellable(conversation, client_last'.item_id)

\* C36: cancel_response with the id of no item, of an item that is not a
\* message, of a message whose role is not assistant or of an assistant
\* message without audio part fails and hands no event to the socket
C36_FailedCancelSendsNothing ==
    [][CancelOfNotCancellable =>
         /\ client_last'.raised # ""
         /\ sent' = sent
         /\ client_last'.published = <<>>]_vars
====
